---- MODULE Spec2Model ----
(***************************************************************************)
(* Chrome-Live-Screenshot-MCP.                                             *)
(*                                                                         *)
(* Part I  - the dispatcher: class WsBridge of src/src/ws-bridge.ts.       *)
(* Part II - the supervisor: src/chrome-extension/offscreen.js.            *)
(*                                                                         *)
(* Both are single-threaded event loops: every action below is one         *)
(* handler (a socket event, a timer callback, a public method) run to its  *)
(* next suspension point.                                                  *)
(***************************************************************************)
EXTENDS Integers, Sequences, FiniteSets, TLC

(***************************************************************************)
(* Bounds of the model.                                                    *)
(***************************************************************************)
\* connections the WebSocket server accepts over a run (each gets a fresh key)
NumConns == 2
\* call() invocations over a run (each gets a fresh request id)
NumCalls == 2
\* call() invocations over a run of every event of the dispatcher: the run
\* follows them from client to client through MAX_ATTEMPTS attempts
NumFollowedCalls == 1

(***************************************************************************)
(* Program constants of ws-bridge.ts.                                      *)
(***************************************************************************)
MAX_ATTEMPTS == 3
PONG_TIMEOUT_MS == 25000

Keys == 1..NumConns
CallIds == 1..NumCalls
\* timeoutMs values callers pass to call(): 15_000 for listTabs and the
\* lower clamp of the tools' timeoutMs argument
TimeoutVals == {1000, 15000}
\* result payloads of an ok res frame
ResultVals == {"resA", "resB"}

\* JSON values as they arrive on the wire: a type tag and the text of the value
Str(text) == [t |-> "string", v |-> text]
Num(text) == [t |-> "number", v |-> text]
Bool(b) == [t |-> "boolean", v |-> IF b THEN "true" ELSE "false"]
Undefined == [t |-> "undefined", v |-> ""]

\* the values a field of msg.error can have: a string, a number, a boolean,
\* or nothing
FieldVals == {Str("boom"), Num("7"), Bool(TRUE), Bool(FALSE), Undefined}

\* msg.error of a res frame: an object with the four fields, or something
\* that is not an object (null, a string, nothing)
ErrorObjects ==
    [t : {"object"}, message : FieldVals, reason : FieldVals, code : FieldVals,
     retryable : FieldVals]
NonObject(type) ==
    [t |-> type, message |-> Undefined, reason |-> Undefined, code |-> Undefined,
     retryable |-> Undefined]
ErrorInputs == ErrorObjects \cup {NonObject("null"), NonObject("string"),
                                 NonObject("undefined")}

\* Error values handed to reject(): whether it is a BridgeError, its message
\* (the parts of the text), and the reason, code and retryable of a
\* BridgeError. The dispatcher's own errors are plain Errors named by kind.
Err(kind) ==
    [kind |-> kind, message |-> <<kind>>, reason |-> Undefined, code |-> Undefined,
     retryable |-> Undefined]

\* toBridgeError keeping only the message
toBridgeError_MessageOnly(input) ==
    [kind |-> "BridgeError",
     message |-> IF input.t = "object" /\ input.message.t = "string"
                 THEN <<input.message.v>> ELSE <<"Unknown error">>,
     reason |-> Undefined, code |-> Undefined, retryable |-> Undefined]

\* toBridgeError(input)
toBridgeError(input) ==
    IF input.t # "object"
    THEN [kind |-> "BridgeError", message |-> <<"Unknown error">>,
          reason |-> Undefined, code |-> Undefined, retryable |-> Undefined]
    ELSE [kind |-> "BridgeError",
          message |-> IF input.message.t = "string"
                      THEN <<input.message.v>> ELSE <<"Unknown error">>,
          reason |-> IF input.reason.t = "string" THEN input.reason ELSE Undefined,
          code |-> IF input.code.t = "string" THEN input.code ELSE Undefined,
          retryable |-> IF input.retryable.t = "boolean"
                        THEN input.retryable ELSE Undefined]

\* the constructor arguments host, endpointHost and port
host == "0.0.0.0"
endpointHostArg == "localhost"
port == "8766"
\* this.endpointHost = args.endpointHost ?? args.host
endpointHost == IF endpointHostArg = "undefined" THEN host ELSE endpointHostArg

\* connectionError() naming the bind host
connectionError_BindHost ==
    [Err("NoClient") EXCEPT !.message =
        <<"Chrome extension is not connected on ", "ws://", host, ":", port,
          ". Ensure the extension is enabled and reachable.">>]

\* connectionError()
connectionError ==
    [Err("NoClient") EXCEPT !.message =
        <<"Chrome extension is not connected on ", "ws://", endpointHost, ":", port,
          ". Ensure the extension is enabled and reachable.">>]

VARIABLES
    \* ---- dispatcher (ws-bridge.ts) ----
    wss,            \* TRUE iff this.wss is a server (start() ran, stop() did not)
    sock,           \* sock[k]: readyState of connection k's socket, "none" before accept
    authed,         \* authed[k]: the closure variable of onConnection
    errorSent,      \* connections sent "Expected hello first." that have not closed yet
    closeCode,      \* closeCode[k]: code of the close frame the server sent on a
                    \* socket that has not closed yet; 0 when it gave none
    clients,        \* keys of this.clients
    rrClientKeys,   \* this.rrClientKeys
    rrCursor,       \* this.rrCursor
    pending,        \* this.pending: request id -> Pending
    pendingByClient,\* this.pendingByClient: key -> set of request ids
    pingInterval,   \* TRUE iff this.pingInterval is set
    timers,         \* armed per-call timers (closures of dispatchPending)
    retries,        \* suspended retryPending() continuations
    calls,          \* calls[id]: idle, live with the caller's timeoutMs, or settled
    \* ---- history of the dispatcher ----
    resolves,       \* resolves[id]: how often pending.resolve was invoked
    rejects,        \* rejects[id]: how often pending.reject was invoked
    outcome,        \* outcome[id]: the last value or error handed to the caller
    cmdsSent,    \* cmdsSent[id]: how many cmd frames with this id ws.send accepted
    disturbed       \* disturbed[id]: something other than its own timer acted on the call

dvars == <<wss, sock, authed, errorSent, closeCode, clients, rrClientKeys, rrCursor, pending,
           pendingByClient, pingInterval, timers, retries, calls,
           resolves, rejects, outcome, cmdsSent, disturbed>>

VARIABLES
    \* ---- supervisor (offscreen.js) ----
    now,                 \* Date.now()
    ticks,               \* how often the clock of the model advanced
    wsState,             \* wsState[e]: readyState of state.ws, "NONE" for null
    socketKey,           \* socketKey[e]: number of the socket session of state.socketKey
    socketStates,        \* keys of the Map socketStates
    connecting,          \* connecting[e]: state.connecting
    reconnectTimer,      \* reconnectTimer[e]: state.reconnectTimer is armed
    openTimer,           \* openTimer[e]: the open timer of the current socket is armed
    backoffMs,           \* backoffMs[e]: state.backoffMs
    consecutiveFailures, \* consecutiveFailures[e]: state.consecutiveFailures
    reconnectDelay,      \* reconnectDelay[e]: delay of the armed reconnect timer, 0 if none
    pendingQueue,        \* the global FIFO of queued commands
    pendingBySocketKey,  \* the Map socket key -> Set of ids, as (key, id) pairs in insertion order
    activeRequestIds,    \* the Set activeRequestIds
    recentlyCompletedIds,\* the Map id -> timestamp, in insertion order
    queueRunning,        \* the flag queueRunning
    executing,           \* items whose sendToBackground() has not returned
    \* ---- history of the supervisor ----
    admitCount,          \* admitCount[id]: how often a cmd with this id was enqueued
    execCount,           \* execCount[id]: how often sendToBackground was called for this id
    lastStarted,         \* admission number of the item last handed to sendToBackground
    doneAt,              \* doneAt[id]: when the id was last marked completed, -1 if never
    lastOpened,          \* the endpoint whose socket opened last, over all runs
    opened,              \* the endpoints whose socket opened since connectLoop last ran
    out,                 \* the frames the latest handler wrote to sockets
    \* ---- endpoint resolution and the sticky endpoint ----
    stickyEndpoint,      \* the module variable stickyEndpoint
    configuredEndpoints, \* the module variable configuredEndpoints
    stickyWrites,        \* chrome.storage.local.set calls not yet called back, in order
    \* ---- status ----
    connected,           \* connected[e]: state.connected
    currentStatus        \* the module variable currentStatus, without lastError and lastChangeAt

svars == <<now, ticks, wsState, socketKey, socketStates, connecting,
           reconnectTimer, openTimer, backoffMs, consecutiveFailures,
           reconnectDelay, pendingQueue, pendingBySocketKey,
           activeRequestIds, recentlyCompletedIds, queueRunning, executing,
           admitCount, execCount, lastStarted, doneAt, lastOpened, opened, out,
           stickyEndpoint, configuredEndpoints, stickyWrites, connected,
           currentStatus>>

VARIABLES
    \* ---- the error of one res frame on its way to the caller ----
    wireError,           \* msg.error as received
    thrown               \* the error handed to pending.reject, NoError before

pvars == <<wireError, thrown>>

VARIABLES
    \* ---- what the supervisor reads from outside (offscreen.js) ----
    storedWsUrl,         \* chrome.storage.local "wsUrl"
    backgroundWsUrl,     \* wsUrl of the background's getConfig answer
    storedSticky,        \* chrome.storage.local "lastConnectedWsUrl"
    \* ---- history of the store ----
    lastSetFailed        \* the chrome.storage.local.set call last called back failed

evars == <<storedWsUrl, backgroundWsUrl, storedSticky, lastSetFailed>>

VARIABLES
    \* ---- the entry point, main() of index.ts ----
    basePort,            \* runtimeConfig.portRangeStart
    attempt,             \* the loop variable attempt
    currentPort,         \* the local currentPort
    bridgePort,          \* this.port of the bridge
    mainPhase,           \* "loop", "awaiting" (in await bridge.start()), "serving", "failed"
    \* ---- history of the entry point ----
    tried,               \* the ports start() was called with, in order
    errors               \* the error codes of the failed start() calls, in order

mvars == <<basePort, attempt, currentPort, bridgePort, mainPhase, tried, errors>>

VARIABLES
    \* ---- the argument parsers of artifacts.ts ----
    args,                \* the arguments object of a tool call
    screenshotParams,    \* what parseScreenshotArgs(args) did
    cleanupParams        \* what parseCleanupArtifactsArgs(args) did

avars == <<args, screenshotParams, cleanupParams>>

VARIABLES
    \* ---- retryDelay of ws-bridge.ts ----
    retryAttempt,        \* the argument attempt: pending.attempt of the failed attempt
    retryJitterMaxMs,    \* this.retryJitterMaxMs
    random,              \* Math.random(), in units of 1 / RandomSteps
    delayMs              \* the delay passed to setTimeout, -1 before the call

rvars == <<retryAttempt, retryJitterMaxMs, random, delayMs>>

VARIABLES
    \* ---- the heartbeat of one client, with its clock (ws-bridge.ts) ----
    hbNow,               \* Date.now() of the dispatcher
    nextTickAt,          \* when the interval of startPing() fires next
    heartbeatIntervalMs, \* this.heartbeatIntervalMs
    pongTimeoutMs,       \* this.pongTimeoutMs
    isClient,            \* the connection is in this.clients
    lastPongAt,          \* client.lastPongAt
    pingsInFlight,       \* ping frames sent and not yet handled by the supervisor
    pongsInFlight,       \* pong frames sent and not yet handled by the dispatcher
    \* ---- history of the heartbeat ----
    missedPing,          \* a tick found a ping of an earlier tick unanswered
    pongTimeoutClosed    \* the tick closed the socket with 4002 pong_timeout

hvars == <<hbNow, nextTickAt, heartbeatIntervalMs, pongTimeoutMs, isClient,
           lastPongAt, pingsInFlight, pongsInFlight, missedPing, pongTimeoutClosed>>

VARIABLES
    \* ---- the command lock of the background worker (background.js) ----
    commandLock,         \* the call whose promise commandLock holds, 0 for Promise.resolve()
    lockPrev,            \* lockPrev[c]: the local prev of call c of withCommandLock
    lockPhase,           \* lockPhase[c]: "idle", "waiting" (at await prev), "running"
                         \* (in fn), "returned" or "threw"
    lockCmd,             \* lockCmd[c]: "openUrl" or "screenshot", "none" before the call
    released,            \* released[c]: release() of call c was called
    \* ---- history of the lock ----
    startOrder           \* the calls in the order in which their bodies started

bvars == <<commandLock, lockPrev, lockPhase, lockCmd, released, startOrder>>

xvars == <<rvars, hvars, bvars>>

vars == <<dvars, svars, pvars, evars, mvars, avars, xvars>>

(***************************************************************************)
(* The dispatcher's tables as one value, so that the private methods can   *)
(* be written as functions from tables to tables and composed the way the  *)
(* code calls them.                                                        *)
(***************************************************************************)
DState ==
    [clients |-> clients, rrClientKeys |-> rrClientKeys, rrCursor |-> rrCursor,
     pending |-> pending, pendingByClient |-> pendingByClient,
     pingInterval |-> pingInterval, timers |-> timers, retries |-> retries,
     calls |-> calls,
     resolves |-> resolves, rejects |-> rejects, outcome |-> outcome,
     cmdsSent |-> cmdsSent, disturbed |-> disturbed]

SetDVars(s) ==
    /\ clients' = s.clients
    /\ rrClientKeys' = s.rrClientKeys
    /\ rrCursor' = s.rrCursor
    /\ pending' = s.pending
    /\ pendingByClient' = s.pendingByClient
    /\ pingInterval' = s.pingInterval
    /\ timers' = s.timers
    /\ retries' = s.retries
    /\ calls' = s.calls
    /\ resolves' = s.resolves
    /\ rejects' = s.rejects
    /\ outcome' = s.outcome
    /\ cmdsSent' = s.cmdsSent
    /\ disturbed' = s.disturbed

SetDState(s) ==
    /\ SetDVars(s)
    /\ UNCHANGED <<svars, pvars, evars, mvars, avars, xvars>>

NoOutcome == [kind |-> "none", value |-> "none"]
\* calls[id] before call(), and once the promise of the call is settled
Idle == [state |-> "idle", timeoutMs |-> 0]
Settled == [state |-> "settled", timeoutMs |-> 0]
Live(timeoutMs) == [state |-> "live", timeoutMs |-> timeoutMs]

\* pending.resolve(value)
Resolve(s, id, value) ==
    [s EXCEPT !.resolves[id] = @ + 1,
              !.outcome[id] = [kind |-> "resolve", value |-> value],
              !.calls[id] = Settled]

\* pending.reject(err)
Reject(s, id, err) ==
    [s EXCEPT !.rejects[id] = @ + 1,
              !.outcome[id] = [kind |-> "reject", value |-> err],
              !.calls[id] = Settled]

Disturb(s, id) == [s EXCEPT !.disturbed[id] = TRUE]

MapDelete(f, x) == [y \in (DOMAIN f) \ {x} |-> f[y]]
MapSet(f, x, v) == [y \in (DOMAIN f) \cup {x} |-> IF y = x THEN v ELSE f[y]]

SeqFilterOut(q, x) ==
    LET F[i \in 0..Len(q)] ==
        IF i = 0 THEN << >>
        ELSE IF q[i] = x THEN F[i - 1] ELSE Append(F[i - 1], q[i])
    IN F[Len(q)]

\* clearTimeout(p.timeout): the handle of a Pending is the timer armed by the
\* dispatchPending that stored it, identified by (id, clientKey, attempt).
TimerOf(id, p) == [id |-> id, clientKey |-> p.clientKey, attempt |-> p.attempt,
                   timeoutMs |-> p.timeoutMs]
clearTimeout(s, id, p) == [s EXCEPT !.timers = @ \ {TimerOf(id, p)}]

\* removePendingFromClient leaving the index as it was
removePendingFromClient_Keeps(s, clientKey, pendingId) == s

removePendingFromClient(s, clientKey, pendingId) ==
    [s EXCEPT !.pendingByClient[clientKey] = @ \ {pendingId}]

\* stopPing() that leaves the interval running
stopPing_Keep(s) == s
stopPing(s) == [s EXCEPT !.pingInterval = FALSE]
startPing(s) == [s EXCEPT !.pingInterval = TRUE]

\* getConnectedClientKey(): the first key at or after the cursor whose client
\* is in the table with an OPEN socket; 0 stands for null.
connectedIndex(s) ==
    LET count == Len(s.rrClientKeys)
        ok(i) == LET key == s.rrClientKeys[((s.rrCursor + i) % count) + 1]
                 IN key \in s.clients /\ sock[key] = "OPEN"
        hits == IF count = 0 THEN {} ELSE {i \in 0..(count - 1) : ok(i)}
    IN IF hits = {} THEN -1
       ELSE LET i == CHOOSE i \in hits : \A j \in hits : i <= j
            IN (s.rrCursor + i) % count

\* getConnectedClientKey() leaving the cursor where it was
getConnectedClientKey_CursorKept(s) ==
    LET idx == connectedIndex(s)
    IN IF idx = -1 THEN [key |-> 0, s |-> s]
       ELSE [key |-> s.rrClientKeys[idx + 1], s |-> s]

getConnectedClientKey(s) ==
    LET idx == connectedIndex(s)
    IN IF idx = -1 THEN [key |-> 0, s |-> s]
       ELSE [key |-> s.rrClientKeys[idx + 1],
             s |-> [s EXCEPT !.rrCursor = (idx + 1) % Len(s.rrClientKeys)]]

\* retryPending without the cap on the attempts
retryPending_Uncapped(s, id, p, fallbackError) ==
    [s EXCEPT !.retries = @ \cup
       {[id |-> id, attempt |-> p.attempt, timeoutMs |-> p.timeoutMs,
         phase |-> "delay"]}]

\* retryPending(pending, fallbackError) up to its first await: either the
\* attempts are used up and the call is rejected, or the continuation is
\* suspended in retryDelay. After the await the continuation reads
\* pending.clientKey and fallbackError only to log them, so it is kept as
\* (id, attempt, timeoutMs).
retryPending(s, id, p, fallbackError) ==
    IF p.attempt >= MAX_ATTEMPTS
    THEN Reject(s, id, fallbackError)
    ELSE [s EXCEPT !.retries = @ \cup
            {[id |-> id, attempt |-> p.attempt, timeoutMs |-> p.timeoutMs,
              phase |-> "delay"]}]

\* dispatchPending(pending); sendThrows is whether ws.send throws.
dispatchPending(s, id, p, sendThrows) ==
    IF ~(p.clientKey \in s.clients /\ sock[p.clientKey] = "OPEN")
    THEN retryPending(Disturb(s, id), id, p, connectionError)
    ELSE
      LET s1 == [s EXCEPT
                   !.timers = @ \cup {TimerOf(id, p)},
                   !.pending = MapSet(@, id, p),
                   !.pendingByClient[p.clientKey] = @ \cup {id},
                   !.cmdsSent[id] = IF sendThrows THEN @ ELSE @ + 1]
      IN IF ~sendThrows THEN s1
         ELSE LET s2 == clearTimeout(s1, id, p)
                  s3 == [s2 EXCEPT !.pending = MapDelete(@, id)]
                  s4 == removePendingFromClient(s3, p.clientKey, id)
              IN retryPending(Disturb(s4, id), id, p, Err("SendError"))

\* failAllPending(err)
failAllPending(s, err) ==
    LET ids == DOMAIN s.pending
        F[S \in SUBSET ids] ==
          IF S = {} THEN s
          ELSE LET id == CHOOSE x \in S : TRUE
                   p == s.pending[id]
                   t == F[S \ {id}]
                   t1 == clearTimeout(t, id, p)
                   t2 == Reject(Disturb(t1, id), id, err)
                   t3 == [t2 EXCEPT !.pending = MapDelete(@, id)]
               IN removePendingFromClient(t3, p.clientKey, id)
    IN F[ids]

\* removeClient rejecting the requests of the client instead of retrying them
removeClient_Rejects(s, clientKey, reason) ==
    IF clientKey \notin s.clients THEN s
    ELSE
      LET rr == SeqFilterOut(s.rrClientKeys, clientKey)
          s1 == [s EXCEPT !.clients = @ \ {clientKey},
                          !.rrClientKeys = rr,
                          !.rrCursor = IF @ >= Len(rr) THEN 0 ELSE @]
          pendingIds == s.pendingByClient[clientKey]
          F[S \in SUBSET pendingIds] ==
            IF S = {} THEN s1
            ELSE LET id == CHOOSE x \in S : TRUE
                     t == F[S \ {id}]
                 IN IF id \notin DOMAIN t.pending THEN t
                    ELSE LET p == t.pending[id]
                             t1 == clearTimeout(t, id, p)
                             t2 == [t1 EXCEPT !.pending = MapDelete(@, id)]
                         IN Reject(Disturb(t2, id), id, reason)
          s2 == [F[pendingIds] EXCEPT !.pendingByClient[clientKey] = {}]
      IN IF s2.clients = {} THEN stopPing(s2) ELSE s2

\* removeClient(clientKey, reason)
removeClient_CursorReset(s, clientKey, reason) ==
    IF clientKey \notin s.clients THEN s
    ELSE
      LET rr == SeqFilterOut(s.rrClientKeys, clientKey)
          s1 == [s EXCEPT !.clients = @ \ {clientKey},
                          !.rrClientKeys = rr,
                          !.rrCursor = 0]
          pendingIds == s.pendingByClient[clientKey]
          F[S \in SUBSET pendingIds] ==
            IF S = {} THEN s1
            ELSE LET id == CHOOSE x \in S : TRUE
                     t == F[S \ {id}]
                 IN IF id \notin DOMAIN t.pending THEN t
                    ELSE LET p == t.pending[id]
                             t1 == clearTimeout(t, id, p)
                             t2 == [t1 EXCEPT !.pending = MapDelete(@, id)]
                         IN retryPending(Disturb(t2, id), id, p, reason)
          s2 == [F[pendingIds] EXCEPT !.pendingByClient[clientKey] = {}]
      IN IF s2.clients = {} THEN stopPing(s2) ELSE s2

removeClient(s, clientKey, reason) ==
    IF clientKey \notin s.clients THEN s
    ELSE
      LET rr == SeqFilterOut(s.rrClientKeys, clientKey)
          s1 == [s EXCEPT !.clients = @ \ {clientKey},
                          !.rrClientKeys = rr,
                          !.rrCursor = IF @ >= Len(rr) THEN 0 ELSE @]
          pendingIds == s.pendingByClient[clientKey]
          F[S \in SUBSET pendingIds] ==
            IF S = {} THEN s1
            ELSE LET id == CHOOSE x \in S : TRUE
                     t == F[S \ {id}]
                 IN IF id \notin DOMAIN t.pending THEN t
                    ELSE LET p == t.pending[id]
                             t1 == clearTimeout(t, id, p)
                             t2 == [t1 EXCEPT !.pending = MapDelete(@, id)]
                         IN retryPending(Disturb(t2, id), id, p, reason)
          s2 == [F[pendingIds] EXCEPT !.pendingByClient[clientKey] = {}]
      IN IF s2.clients = {} THEN stopPing(s2) ELSE s2

(***************************************************************************)
(* Initial state: a constructed WsBridge, not started.                     *)
(***************************************************************************)
DInit ==
    /\ wss = FALSE
    /\ sock = [k \in Keys |-> "none"]
    /\ authed = [k \in Keys |-> FALSE]
    /\ errorSent = {}
    /\ closeCode = [k \in Keys |-> 0]
    /\ clients = {}
    /\ rrClientKeys = << >>
    /\ rrCursor = 0
    /\ pending = [id \in {} |-> 0]
    /\ pendingByClient = [k \in Keys |-> {}]
    /\ pingInterval = FALSE
    /\ timers = {}
    /\ retries = {}
    /\ calls = [id \in CallIds |-> Idle]
    /\ resolves = [id \in CallIds |-> 0]
    /\ rejects = [id \in CallIds |-> 0]
    /\ outcome = [id \in CallIds |-> NoOutcome]
    /\ cmdsSent = [id \in CallIds |-> 0]
    /\ disturbed = [id \in CallIds |-> FALSE]

\* what the handlers below leave alone besides the tables
ConnUnchanged == UNCHANGED <<wss, sock, authed, errorSent, closeCode>>

\* start(): the server listens (bind failures are not part of this model)
Start ==
    /\ ~wss
    /\ wss' = TRUE
    /\ UNCHANGED <<sock, authed, errorSent, closeCode>>
    /\ SetDState(DState)

\* stop()
Stop ==
    /\ wss' = FALSE
    /\ LET s1 == [DState EXCEPT !.clients = {}, !.rrClientKeys = << >>,
                                !.rrCursor = 0]
           s2 == stopPing(s1)
       IN SetDState(failAllPending(s2, Err("ServerStopped")))
    \* client.ws.close() and c.close() for every socket of the server
    /\ sock' = [k \in Keys |-> IF wss /\ sock[k] = "OPEN" THEN "CLOSING" ELSE sock[k]]
    /\ UNCHANGED <<authed, errorSent, closeCode>>

\* wss.on("error"), after the server started listening
ServerError ==
    /\ wss
    /\ SetDState(failAllPending(DState, Err("ServerError")))
    /\ UNCHANGED <<wss, sock, authed, errorSent, closeCode>>

\* wss.on("connection"): onConnection(ws) with a fresh key
Connect(k) ==
    /\ wss
    /\ sock[k] = "none"
    /\ \A j \in Keys : j < k => sock[j] # "none"
    /\ sock' = [sock EXCEPT ![k] = "OPEN"]
    /\ UNCHANGED <<wss, authed, errorSent, closeCode>>
    /\ SetDState(DState)

\* frames are delivered until the close event of the socket
Receiving(k) == sock[k] \in {"OPEN", "CLOSING"}

\* ws.on("message") with a first frame that is not hello
NonHelloFirst(k) ==
    /\ Receiving(k)
    /\ ~authed[k]
    \* ws.send({type: "error", message: "Expected hello first."}); ws.close()
    /\ errorSent' = errorSent \cup {k}
    /\ sock' = [sock EXCEPT ![k] = "CLOSING"]
    /\ UNCHANGED <<wss, authed, closeCode>>
    /\ SetDState(DState)

\* ws.on("message") with a hello frame on a connection that is not authed
Hello(k) ==
    /\ Receiving(k)
    /\ ~authed[k]
    /\ authed' = [authed EXCEPT ![k] = TRUE]
    /\ LET s1 == [DState EXCEPT !.clients = @ \cup {k},
                                !.rrClientKeys = Append(@, k)]
       IN SetDState(startPing(s1))
    /\ UNCHANGED <<wss, sock, errorSent, closeCode>>

\* the res frames a client can send
WireError(retryable) ==
    [t |-> "object", message |-> Str("boom"), reason |-> Str("boom"),
     code |-> Str("boom"), retryable |-> retryable]
\* msg.error of the ok=false frames: retryable true, false, and "true" as a
\* string
WireErrors == {WireError(Bool(TRUE)), WireError(Bool(FALSE)), WireError(Str("true"))}
ResFrames ==
    [ok : {TRUE}, result : ResultVals, error : {NonObject("undefined")}] \cup
    [ok : {FALSE}, result : {"none"}, error : WireErrors]

\* the res branch settling the call and leaving its pending record in place
onRes_KeepsPending(s, key, id, msg) ==
    IF id \notin DOMAIN s.pending THEN s
    ELSE IF s.pending[id].clientKey # key THEN s
    ELSE IF msg.ok THEN Resolve(Disturb(s, id), id, msg.result)
    ELSE Reject(Disturb(s, id), id, toBridgeError(msg.error))

\* the res branch without the check of the sending connection
onRes_AnySender(s, key, id, msg) ==
    IF id \notin DOMAIN s.pending THEN s
    ELSE
      LET p == s.pending[id]
          s1 == clearTimeout(s, id, p)
          s2 == [s1 EXCEPT !.pending = MapDelete(@, id)]
          s3 == Disturb(removePendingFromClient(s2, p.clientKey, id), id)
      IN IF msg.ok THEN Resolve(s3, id, msg.result)
         ELSE LET bridgeErr == toBridgeError(msg.error)
              IN IF bridgeErr.retryable = Bool(TRUE) /\ p.attempt < MAX_ATTEMPTS
                 THEN retryPending(s3, id, p, bridgeErr)
                 ELSE Reject(s3, id, bridgeErr)

\* the res branch retrying whatever the error says
onRes_IgnoresRetryable(s, key, id, msg) ==
    IF id \notin DOMAIN s.pending THEN s
    ELSE IF s.pending[id].clientKey # key THEN s
    ELSE
      LET p == s.pending[id]
          s1 == clearTimeout(s, id, p)
          s2 == [s1 EXCEPT !.pending = MapDelete(@, id)]
          s3 == Disturb(removePendingFromClient(s2, p.clientKey, id), id)
      IN IF msg.ok THEN Resolve(s3, id, msg.result)
         ELSE LET bridgeErr == toBridgeError(msg.error)
              IN IF p.attempt < MAX_ATTEMPTS
                 THEN retryPending(s3, id, p, bridgeErr)
                 ELSE Reject(s3, id, bridgeErr)

\* the res branch of ws.on("message") on connection key for msg.id = id
onRes(s, key, id, msg) ==
    IF id \notin DOMAIN s.pending THEN s
    ELSE IF s.pending[id].clientKey # key THEN s
    ELSE
      LET p == s.pending[id]
          s1 == clearTimeout(s, id, p)
          s2 == [s1 EXCEPT !.pending = MapDelete(@, id)]
          s3 == Disturb(removePendingFromClient(s2, p.clientKey, id), id)
      IN IF msg.ok THEN Resolve(s3, id, msg.result)
         ELSE LET bridgeErr == toBridgeError(msg.error)
              IN IF bridgeErr.retryable = Bool(TRUE) /\ p.attempt < MAX_ATTEMPTS
                 THEN retryPending(s3, id, p, bridgeErr)
                 ELSE Reject(s3, id, bridgeErr)

ResFrame(k, id, msg) ==
    /\ Receiving(k)
    /\ authed[k]
    /\ SetDState(onRes(DState, k, id, msg))
    /\ UNCHANGED <<wss, sock, authed, errorSent, closeCode>>

\* the peer's close frame arrives: readyState is CLOSING until the close event
PeerClosing(k) ==
    /\ sock[k] = "OPEN"
    /\ sock' = [sock EXCEPT ![k] = "CLOSING"]
    /\ UNCHANGED <<wss, authed, errorSent, closeCode>>
    /\ SetDState(DState)

\* ws.on("close")
CloseEvent(k) ==
    /\ Receiving(k)
    /\ sock' = [sock EXCEPT ![k] = "CLOSED"]
    /\ errorSent' = errorSent \ {k}
    /\ closeCode' = [closeCode EXCEPT ![k] = 0]
    /\ SetDState(removeClient(DState, k, Err("Disconnected")))
    /\ UNCHANGED <<wss, authed>>

\* ws.on("error"): the socket is CLOSING when the event is emitted
ErrorEvent(k) ==
    /\ Receiving(k)
    /\ sock' = [sock EXCEPT ![k] = "CLOSING"]
    /\ SetDState(removeClient(DState, k, Err("WsError")))
    /\ UNCHANGED <<wss, authed, errorSent, closeCode>>

\* the ages of the last pong that a tick can find: at the limit and past it
SincePongVals == {PONG_TIMEOUT_MS, PONG_TIMEOUT_MS + 1}

\* the OPEN clients that a tick finds with a pong older than pongTimeoutMs
timedOut(s, sincePongMs) ==
    {k \in s.clients : sock[k] = "OPEN" /\ sincePongMs[k] > PONG_TIMEOUT_MS}

\* a tick that gives up on a client whose pong is exactly pongTimeoutMs old
heartbeat_AtTimeout(s, sincePongMs) ==
    LET order == s.rrClientKeys
        F[i \in 0..Len(order)] ==
          IF i = 0 THEN s
          ELSE IF /\ order[i] \in s.clients
                  /\ sock[order[i]] = "OPEN"
                  /\ sincePongMs[order[i]] >= PONG_TIMEOUT_MS
               THEN removeClient(F[i - 1], order[i], Err("HeartbeatTimeout"))
               ELSE F[i - 1]
    IN F[Len(order)]

\* One tick of the interval of startPing(). sincePongMs[k] is now -
\* client.lastPongAt of client k at this tick. Clients whose socket is not
\* OPEN are skipped; an OPEN client whose pong is older than pongTimeoutMs
\* is removed, the others get a ping. Clients are visited in the order of
\* the Map, which is the order of rrClientKeys.
heartbeat(s, sincePongMs) ==
    LET order == s.rrClientKeys
        F[i \in 0..Len(order)] ==
          IF i = 0 THEN s
          ELSE IF order[i] \in timedOut(s, sincePongMs)
               THEN removeClient(F[i - 1], order[i], Err("HeartbeatTimeout"))
               ELSE F[i - 1]
    IN F[Len(order)]

HeartbeatTick(sincePongMs) ==
    /\ pingInterval
    \* the age of the last pong is read for the OPEN clients only
    /\ \A k \in Keys : (k \in clients /\ sock[k] = "OPEN")
                         \/ sincePongMs[k] = PONG_TIMEOUT_MS
    /\ LET s == DState
           T == timedOut(s, sincePongMs)
       IN \* ws.close(4002, "pong_timeout")
          /\ sock' = [k \in Keys |-> IF k \in T THEN "CLOSING" ELSE sock[k]]
          /\ closeCode' = [k \in Keys |-> IF k \in T THEN 4002 ELSE closeCode[k]]
          /\ SetDState(heartbeat(s, sincePongMs))
    /\ UNCHANGED <<wss, authed, errorSent>>

\* call(cmd, params, timeoutMs); the request id is fresh
Call(id, timeoutMs, sendThrows) ==
    /\ calls[id] = Idle
    /\ \A j \in CallIds : j < id => calls[j] # Idle
    /\ LET g == getConnectedClientKey([DState EXCEPT !.calls[id] = Live(timeoutMs)])
       IN IF g.key = 0
          THEN /\ ~sendThrows
               /\ SetDState(Reject(Disturb(g.s, id), id, connectionError))
          ELSE SetDState(dispatchPending(g.s, id,
                   [clientKey |-> g.key, attempt |-> 1, timeoutMs |-> timeoutMs],
                   sendThrows))
    /\ UNCHANGED <<wss, sock, authed, errorSent, closeCode>>

\* the timer callback forgetting the request instead of retrying it
onTimeout_Forgets(s, t) ==
    LET s0 == [s EXCEPT !.timers = @ \ {t}]
    IN IF t.id \notin DOMAIN s0.pending THEN s0
       ELSE removePendingFromClient([s0 EXCEPT !.pending = MapDelete(@, t.id)],
                                    t.clientKey, t.id)

\* the timer callback rejecting on the first timeout
onTimeout_RejectsAtOnce(s, t) ==
    LET s0 == [s EXCEPT !.timers = @ \ {t}]
    IN IF t.id \notin DOMAIN s0.pending THEN s0
       ELSE Reject(removePendingFromClient(
                     [s0 EXCEPT !.pending = MapDelete(@, t.id)],
                     t.clientKey, t.id),
                   t.id, Err("Timeout"))

\* the callback of the per-call timer armed by dispatchPending
onTimeout(s, t) ==
    LET s0 == [s EXCEPT !.timers = @ \ {t}]
    IN IF t.id \notin DOMAIN s0.pending THEN s0
       ELSE LET current == s0.pending[t.id]
            IN IF current.clientKey # t.clientKey \/ current.attempt # t.attempt
               THEN s0
               ELSE LET s1 == [s0 EXCEPT !.pending = MapDelete(@, t.id)]
                        s2 == removePendingFromClient(s1, t.clientKey, t.id)
                    IN retryPending(s2, t.id, current, Err("Timeout"))

TimerFire(t) ==
    /\ t \in timers
    /\ SetDState(onTimeout(DState, t))
    /\ UNCHANGED <<wss, sock, authed, errorSent, closeCode>>

\* the rest of retryPending once a client key is selected
retryDispatch(s, r, key, sendThrows) ==
    dispatchPending([s EXCEPT !.retries = @ \ {r}], r.id,
        [clientKey |-> key, attempt |-> r.attempt + 1, timeoutMs |-> r.timeoutMs],
        sendThrows)

\* retryDelay() elapses; waitForConnectedClient() looks for a client at once
RetryDelayElapsed(r, sendThrows) ==
    /\ r \in retries
    /\ r.phase = "delay"
    /\ LET g == getConnectedClientKey(DState)
       IN IF g.key = 0
          THEN /\ ~sendThrows
               /\ SetDState(Disturb([g.s EXCEPT !.retries =
                      (@ \ {r}) \cup {[r EXCEPT !.phase = "wait"]}], r.id))
          ELSE SetDState(retryDispatch(g.s, r, g.key, sendThrows))
    /\ UNCHANGED <<wss, sock, authed, errorSent, closeCode>>

\* a poll of waitForConnectedClient() finds a client
RetryPoll(r, sendThrows) ==
    /\ r \in retries
    /\ r.phase = "wait"
    /\ LET g == getConnectedClientKey(DState)
       IN /\ g.key # 0
          /\ SetDState(retryDispatch(g.s, r, g.key, sendThrows))
    /\ UNCHANGED <<wss, sock, authed, errorSent, closeCode>>

\* the end of the wait rejecting with the error that began the retry
RetryWaitExpired_FallbackError(r) ==
    /\ r \in retries
    /\ r.phase = "wait"
    /\ getConnectedClientKey(DState).key = 0
    /\ SetDState(Reject([DState EXCEPT !.retries = @ \ {r}], r.id, Err("Timeout")))
    /\ UNCHANGED <<wss, sock, authed, errorSent, closeCode>>

\* the last poll of waitForConnectedClient() finds none: retryWaitForClientMs
\* is over and retryPending rejects with connectionError()
RetryWaitExpired(r) ==
    /\ r \in retries
    /\ r.phase = "wait"
    /\ getConnectedClientKey(DState).key = 0
    /\ SetDState(Reject([DState EXCEPT !.retries = @ \ {r}], r.id, connectionError))
    /\ UNCHANGED <<wss, sock, authed, errorSent, closeCode>>

DNext ==
    \/ Start
    \/ Stop
    \/ ServerError
    \/ \E k \in Keys : Connect(k)
    \/ \E k \in Keys : NonHelloFirst(k)
    \/ \E k \in Keys : Hello(k)
    \/ \E k \in Keys, id \in CallIds, msg \in ResFrames : ResFrame(k, id, msg)
    \/ \E k \in Keys : PeerClosing(k)
    \/ \E k \in Keys : CloseEvent(k)
    \/ \E k \in Keys : ErrorEvent(k)
    \/ \E sincePongMs \in [Keys -> SincePongVals] : HeartbeatTick(sincePongMs)
    \/ \E id \in 1..NumFollowedCalls, ms \in TimeoutVals, th \in BOOLEAN :
          Call(id, ms, th)
    \/ \E t \in timers : TimerFire(t)
    \/ \E r \in retries, th \in BOOLEAN : RetryDelayElapsed(r, th)
    \/ \E r \in retries, th \in BOOLEAN : RetryPoll(r, th)
    \/ \E r \in retries : RetryWaitExpired(r)

(***************************************************************************)
(* The entry point: main() of index.ts binds the bridge to the first free  *)
(* port of its range.                                                      *)
(***************************************************************************)
DEFAULT_PORT == 8766
PORT_FALLBACK_COUNT == 10
\* the largest port listen() accepts; a larger one makes the WebSocketServer
\* constructor throw
MAX_TCP_PORT == 65535

\* Math.max of two numbers
Max(a, b) == IF a > b THEN a ELSE b

\* maxRetries of main()
maxRetries == Max(1, (basePort + PORT_FALLBACK_COUNT) - basePort)

\* main() is about to enter its loop with the default port
MInit ==
    /\ basePort = DEFAULT_PORT
    /\ attempt = 0
    /\ currentPort = DEFAULT_PORT
    /\ bridgePort = DEFAULT_PORT
    /\ mainPhase = "loop"
    /\ tried = << >>
    /\ errors = << >>

\* the loop body of main() up to `await bridge.start()`: setPort and the
\* synchronous part of start()
MainTry ==
    /\ mainPhase = "loop"
    /\ attempt < maxRetries
    /\ bridgePort' = currentPort
    /\ tried' = Append(tried, currentPort)
    /\ IF wss
       THEN \* start() resolves at once; started = true; break
            /\ mainPhase' = "serving"
            /\ UNCHANGED <<wss, errors>>
       ELSE IF currentPort > MAX_TCP_PORT
       THEN \* new WebSocketServer throws, this.wss is not assigned, the
            \* promise rejects and main() rethrows
            /\ mainPhase' = "failed"
            /\ errors' = Append(errors, "ERR_SOCKET_BAD_PORT")
            /\ UNCHANGED wss
       ELSE /\ mainPhase' = "awaiting"
            /\ wss' = TRUE
            /\ UNCHANGED errors
    /\ SetDVars(DState)
    /\ UNCHANGED <<svars, pvars, evars, avars, xvars>>
    /\ UNCHANGED <<sock, authed, errorSent, closeCode>>
    /\ UNCHANGED <<basePort, attempt, currentPort>>

\* the listening callback of start(), then main(): started = true; break
StartListening ==
    /\ mainPhase = "awaiting"
    /\ wss
    /\ mainPhase' = "serving"
    /\ SetDVars(DState)
    /\ UNCHANGED <<svars, pvars, evars, avars, xvars>>
    /\ UNCHANGED <<wss, sock, authed, errorSent, closeCode>>
    /\ UNCHANGED <<basePort, attempt, currentPort, bridgePort, tried, errors>>

\* the catch block of main() for an error with this code in its message
mainCatch(code) ==
    /\ errors' = Append(errors, code)
    /\ IF code = "EADDRINUSE"
       THEN /\ currentPort' = basePort + attempt + 1
            /\ attempt' = attempt + 1
            \* the loop ends after the last attempt and main() throws
            /\ mainPhase' = IF attempt + 1 < maxRetries THEN "loop" ELSE "failed"
       ELSE /\ mainPhase' = "failed"
            /\ UNCHANGED <<currentPort, attempt>>
    /\ UNCHANGED <<basePort, bridgePort, tried>>

\* wss.on("error") that leaves this.wss set
StartError_KeepsServer(code) ==
    /\ mainPhase = "awaiting"
    /\ wss
    /\ SetDVars(failAllPending(DState, Err("ServerError")))
    /\ UNCHANGED <<svars, pvars, evars, avars, xvars>>
    /\ UNCHANGED <<wss, sock, authed, errorSent, closeCode>>
    /\ mainCatch(code)

\* wss.on("error") before the server listens: the promise of start()
\* rejects, then the catch block of main()
StartError(code) ==
    /\ mainPhase = "awaiting"
    /\ wss
    /\ SetDVars(failAllPending(DState, Err("ServerError")))
    /\ UNCHANGED <<svars, pvars, evars, avars, xvars>>
    /\ wss' = FALSE
    /\ UNCHANGED <<sock, authed, errorSent, closeCode>>
    /\ mainCatch(code)

(***************************************************************************)
(* Part II - the supervisor, src/chrome-extension/offscreen.js             *)
(***************************************************************************)
\* endpoints of the resolved set
NumEndpoints == 2
\* request ids that cmd frames carry
NumIds == 3
\* socket sessions opened over a run, all endpoints together
MaxSockets == 3
\* sockets created over a run of connection events only
MaxReconnectSockets == 9
\* advances of the clock over a run
MaxTicks == 1
\* cmd frames admitted to the queue over a run
MaxAdmits == 3

\* Capacities of offscreen.js, scaled down so that a run of the model fills
\* them: the code has MAX_GLOBAL_QUEUE_SIZE = 200 and COMPLETED_ID_MAX = 2000.
MAX_GLOBAL_QUEUE_SIZE == 2
COMPLETED_ID_MAX == 1

BASE_RECONNECT_MS == 500
MAX_RECONNECT_MS == 10000
QUEUE_WAIT_TIMEOUT_MS == 20000
COMPLETED_ID_TTL_MS == 120000

Endpoints == 1..NumEndpoints
Ids == 1..NumIds
\* by how much the clock advances in one step
TickDeltas == {QUEUE_WAIT_TIMEOUT_MS + 1, COMPLETED_ID_TTL_MS + 1}

\* state.socketKey of endpoint e: `${wsUrl}#${cryptoRandomId()}`
KeyOf(S, e) == <<e, S.socketKey[e]>>

SState ==
    [wsState |-> wsState, socketKey |-> socketKey, socketStates |-> socketStates,
     connecting |-> connecting, reconnectTimer |-> reconnectTimer,
     openTimer |-> openTimer, backoffMs |-> backoffMs,
     consecutiveFailures |-> consecutiveFailures,
     reconnectDelay |-> reconnectDelay, pendingQueue |-> pendingQueue,
     pendingBySocketKey |-> pendingBySocketKey,
     activeRequestIds |-> activeRequestIds,
     recentlyCompletedIds |-> recentlyCompletedIds,
     queueRunning |-> queueRunning, executing |-> executing,
     admitCount |-> admitCount, execCount |-> execCount,
     lastStarted |-> lastStarted, doneAt |-> doneAt,
     lastOpened |-> lastOpened, opened |-> opened,
     stickyEndpoint |-> stickyEndpoint,
     configuredEndpoints |-> configuredEndpoints,
     stickyWrites |-> stickyWrites,
     connected |-> connected, currentStatus |-> currentStatus,
     \* the frames the running handler has written to sockets, in order
     out |-> << >>]

SetSVars(S) ==
    /\ wsState' = S.wsState
    /\ socketKey' = S.socketKey
    /\ socketStates' = S.socketStates
    /\ connecting' = S.connecting
    /\ reconnectTimer' = S.reconnectTimer
    /\ openTimer' = S.openTimer
    /\ backoffMs' = S.backoffMs
    /\ consecutiveFailures' = S.consecutiveFailures
    /\ reconnectDelay' = S.reconnectDelay
    /\ pendingQueue' = S.pendingQueue
    /\ pendingBySocketKey' = S.pendingBySocketKey
    /\ activeRequestIds' = S.activeRequestIds
    /\ recentlyCompletedIds' = S.recentlyCompletedIds
    /\ queueRunning' = S.queueRunning
    /\ executing' = S.executing
    /\ admitCount' = S.admitCount
    /\ execCount' = S.execCount
    /\ lastStarted' = S.lastStarted
    /\ doneAt' = S.doneAt
    /\ out' = S.out
    /\ lastOpened' = S.lastOpened
    /\ opened' = S.opened
    /\ stickyEndpoint' = S.stickyEndpoint
    /\ configuredEndpoints' = S.configuredEndpoints
    /\ stickyWrites' = S.stickyWrites
    /\ connected' = S.connected
    /\ currentStatus' = S.currentStatus

SetSState(S) ==
    /\ SetSVars(S)
    /\ UNCHANGED <<dvars, pvars, evars, mvars, avars, xvars>>

SeqSelect(q, Test(_)) ==
    LET F[i \in 0..Len(q)] ==
        IF i = 0 THEN << >>
        ELSE IF Test(q[i]) THEN Append(F[i - 1], q[i]) ELSE F[i - 1]
    IN F[Len(q)]

\* pruneCompletedRequestIds(now)
pruneCompletedRequestIds(S, t) ==
    LET fresh(entry) == ~(t - entry.ts > COMPLETED_ID_TTL_MS)
        kept == SeqSelect(S.recentlyCompletedIds, fresh)
        n == Len(kept)
    IN [S EXCEPT !.recentlyCompletedIds =
           IF n > COMPLETED_ID_MAX
           THEN SubSeq(kept, n - COMPLETED_ID_MAX + 1, n)
           ELSE kept]

\* recentlyCompletedIds.set(id, Date.now()): an id that has an entry keeps
\* its place in the Map
completedSet(S, id) ==
    LET rc == S.recentlyCompletedIds
        has == \E i \in 1..Len(rc) : rc[i].id = id
    IN [S EXCEPT
          !.recentlyCompletedIds =
              IF has
              THEN [i \in 1..Len(rc) |->
                      IF rc[i].id = id THEN [id |-> id, ts |-> now] ELSE rc[i]]
              ELSE Append(rc, [id |-> id, ts |-> now]),
          !.doneAt[id] = now]

completedHas(S, id) ==
    \E i \in 1..Len(S.recentlyCompletedIds) : S.recentlyCompletedIds[i].id = id

\* socketIsOpen(state) for the state object of endpoint e
socketIsOpen(S, e) == S.wsState[e] = "OPEN"

\* sendErrorToSocket(state, id, message, reason, code, retryable)
sendErrorToSocket(S, e, id, reason, code, retryable) ==
    IF ~socketIsOpen(S, e) THEN S
    ELSE [S EXCEPT !.out = Append(@, [socketKey |-> KeyOf(S, e), id |-> id,
                                      ok |-> FALSE, reason |-> reason,
                                      code |-> code, retryable |-> retryable])]

\* markRequestComplete(id)
markRequestComplete(S, id) ==
    completedSet([S EXCEPT !.activeRequestIds = @ \ {id}], id)

\* registerSocketPending(socketKey, id)
registerSocketPending(S, key, id) ==
    IF \E i \in 1..Len(S.pendingBySocketKey) : S.pendingBySocketKey[i] = <<key, id>>
    THEN S
    ELSE [S EXCEPT !.pendingBySocketKey = Append(@, <<key, id>>)]

\* unregisterSocketPending(socketKey, id)
unregisterSocketPending(S, key, id) ==
    LET other(pair) == pair # <<key, id>>
    IN [S EXCEPT !.pendingBySocketKey = SeqSelect(@, other)]

\* finalizeSocket leaving the queued items of the socket in the queue
finalizeSocket_KeepsQueue(S, e) ==
    LET key == KeyOf(S, e)
        owned(pair) == pair[1] = key
        foreign(pair) == pair[1] # key
        socketPending == SeqSelect(S.pendingBySocketKey, owned)
        marked[i \in 0..Len(socketPending)] ==
            IF i = 0 THEN S
            ELSE completedSet([marked[i - 1] EXCEPT
                                 !.activeRequestIds = @ \ {socketPending[i][2]}],
                              socketPending[i][2])
        S1 == [marked[Len(socketPending)] EXCEPT
                 !.connected[e] = FALSE,
                 !.socketStates = @ \ {key},
                 !.pendingBySocketKey = SeqSelect(@, foreign)]
    IN pruneCompletedRequestIds(S1, now)

\* finalizeSocket(state, closeMessage), called with the socket CLOSED
finalizeSocket(S, e) ==
    LET key == KeyOf(S, e)
        owned(pair) == pair[1] = key
        foreign(pair) == pair[1] # key
        socketPending == SeqSelect(S.pendingBySocketKey, owned)
        marked[i \in 0..Len(socketPending)] ==
            IF i = 0 THEN S
            ELSE completedSet([marked[i - 1] EXCEPT
                                 !.activeRequestIds = @ \ {socketPending[i][2]}],
                              socketPending[i][2])
        S1 == [marked[Len(socketPending)] EXCEPT
                 !.connected[e] = FALSE,
                 !.socketStates = @ \ {key},
                 !.pendingBySocketKey = SeqSelect(@, foreign)]
        q == S1.pendingQueue
        \* the queue is walked from its tail to its head
        spliced[i \in 0..Len(q)] ==
            IF i = 0 THEN S1
            ELSE LET item == q[Len(q) - i + 1]
                     notItem(x) == x # item
                 IN IF item.socketKey # key THEN spliced[i - 1]
                    ELSE sendErrorToSocket(
                           completedSet(
                             [spliced[i - 1] EXCEPT
                                !.pendingQueue = SeqSelect(@, notItem),
                                !.activeRequestIds = @ \ {item.id}],
                             item.id),
                           e, item.id, "socket_closed", "SOCKET_CLOSED", TRUE)
    IN pruneCompletedRequestIds(spliced[Len(q)], now)

\* the while loop of processQueue without the test of the deadline
RECURSIVE drain_NoDeadline(_)
drain_NoDeadline(S) ==
    IF S.pendingQueue = << >> THEN [S EXCEPT !.queueRunning = FALSE]
    ELSE LET item == Head(S.pendingQueue)
             e == item.socketKey[1]
             S1 == [S EXCEPT !.pendingQueue = Tail(@)]
         IN IF item.socketKey \notin S1.socketStates \/ ~socketIsOpen(S1, e)
            THEN drain_NoDeadline(
                   completedSet([S1 EXCEPT !.activeRequestIds = @ \ {item.id}],
                                item.id))
            ELSE [S1 EXCEPT !.executing = @ \cup {item},
                            !.execCount[item.id] = @ + 1,
                            !.lastStarted = item.seq]

\* the while loop of processQueue, up to the await of sendToBackground or
\* to the empty queue
RECURSIVE drain(_)
drain(S) ==
    IF S.pendingQueue = << >> THEN [S EXCEPT !.queueRunning = FALSE]
    ELSE LET item == Head(S.pendingQueue)
             e == item.socketKey[1]
             S1 == [S EXCEPT !.pendingQueue = Tail(@)]
         IN IF item.socketKey \notin S1.socketStates \/ ~socketIsOpen(S1, e)
            THEN drain(completedSet([S1 EXCEPT !.activeRequestIds = @ \ {item.id}],
                                    item.id))
            ELSE IF now > item.deadlineAt
            THEN drain(pruneCompletedRequestIds(
                         markRequestComplete(
                           unregisterSocketPending(
                             sendErrorToSocket(S1, e, item.id, "queue_wait_timeout",
                                               "QUEUE_WAIT_TIMEOUT", TRUE),
                             item.socketKey, item.id),
                           item.id),
                         now))
            ELSE [S1 EXCEPT !.executing = @ \cup {item},
                            !.execCount[item.id] = @ + 1,
                            !.lastStarted = item.seq]

\* processQueue() that does not start the worker
processQueue_Idle(S) == S

\* processQueue() without the queueRunning guard
processQueue_Unguarded(S) == drain([S EXCEPT !.queueRunning = TRUE])

\* processQueue(), up to its first await
processQueue(S) ==
    IF S.queueRunning THEN S
    ELSE drain([S EXCEPT !.queueRunning = TRUE])

\* the item put at the head of the queue
push_AtHead(q, item) == <<item>> \o q

\* the queue after pendingQueue.push(item)
push(q, item) == Append(q, item)

\* f[1] + ... + f[n]
Sum(f, n) ==
    LET F[i \in 0..n] == IF i = 0 THEN 0 ELSE F[i - 1] + f[i]
    IN F[n]

\* enqueueCommand admitting every cmd the queue has room for
enqueueCommand_NoDuplicateCheck(S, e, id) ==
    LET S1 == pruneCompletedRequestIds(S, now)
    IN IF Len(S1.pendingQueue) >= MAX_GLOBAL_QUEUE_SIZE
       THEN sendErrorToSocket(S1, e, id, "queue_overflow", "QUEUE_OVERFLOW", TRUE)
       ELSE LET item == [socketKey |-> KeyOf(S1, e), id |-> id,
                         deadlineAt |-> now + QUEUE_WAIT_TIMEOUT_MS,
                         seq |-> Sum(S1.admitCount, NumIds) + 1]
            IN processQueue(
                 [registerSocketPending(
                    [S1 EXCEPT !.activeRequestIds = @ \cup {id}],
                    KeyOf(S1, e), id)
                  EXCEPT !.pendingQueue = push(@, item),
                         !.admitCount[id] = @ + 1])

\* enqueueCommand looking for duplicates in activeRequestIds only
enqueueCommand_ActiveOnly(S, e, id) ==
    LET S1 == pruneCompletedRequestIds(S, now)
    IN IF id \in S1.activeRequestIds
       THEN sendErrorToSocket(S1, e, id, "duplicate_request_id",
                              "DUPLICATE_REQUEST_ID", FALSE)
       ELSE IF Len(S1.pendingQueue) >= MAX_GLOBAL_QUEUE_SIZE
       THEN sendErrorToSocket(S1, e, id, "queue_overflow", "QUEUE_OVERFLOW", TRUE)
       ELSE LET item == [socketKey |-> KeyOf(S1, e), id |-> id,
                         deadlineAt |-> now + QUEUE_WAIT_TIMEOUT_MS,
                         seq |-> Sum(S1.admitCount, NumIds) + 1]
            IN processQueue(
                 [registerSocketPending(
                    [S1 EXCEPT !.activeRequestIds = @ \cup {id}],
                    KeyOf(S1, e), id)
                  EXCEPT !.pendingQueue = push(@, item),
                         !.admitCount[id] = @ + 1])

\* enqueueCommand without the test of the queue's length
enqueueCommand_NoOverflowCheck(S, e, id) ==
    LET S1 == pruneCompletedRequestIds(S, now)
    IN IF id \in S1.activeRequestIds \/ completedHas(S1, id)
       THEN sendErrorToSocket(S1, e, id, "duplicate_request_id",
                              "DUPLICATE_REQUEST_ID", FALSE)
       ELSE LET item == [socketKey |-> KeyOf(S1, e), id |-> id,
                         deadlineAt |-> now + QUEUE_WAIT_TIMEOUT_MS,
                         seq |-> Sum(S1.admitCount, NumIds) + 1]
            IN processQueue(
                 [registerSocketPending(
                    [S1 EXCEPT !.activeRequestIds = @ \cup {id}],
                    KeyOf(S1, e), id)
                  EXCEPT !.pendingQueue = push(@, item),
                         !.admitCount[id] = @ + 1])

\* enqueueCommand(state, msg) for the state object of endpoint e
enqueueCommand(S, e, id) ==
    LET S1 == pruneCompletedRequestIds(S, now)
    IN IF id \in S1.activeRequestIds \/ completedHas(S1, id)
       THEN sendErrorToSocket(S1, e, id, "duplicate_request_id",
                              "DUPLICATE_REQUEST_ID", FALSE)
       ELSE IF Len(S1.pendingQueue) >= MAX_GLOBAL_QUEUE_SIZE
       THEN sendErrorToSocket(S1, e, id, "queue_overflow", "QUEUE_OVERFLOW", TRUE)
       ELSE LET item == [socketKey |-> KeyOf(S1, e), id |-> id,
                         deadlineAt |-> now + QUEUE_WAIT_TIMEOUT_MS,
                         seq |-> Sum(S1.admitCount, NumIds) + 1]
            IN processQueue(
                 [registerSocketPending(
                    [S1 EXCEPT !.activeRequestIds = @ \cup {id}],
                    KeyOf(S1, e), id)
                  EXCEPT !.pendingQueue = push(@, item),
                         !.admitCount[id] = @ + 1])

\* Math.min of two numbers
Min(a, b) == IF a < b THEN a ELSE b

\* scheduleReconnect with the doubling not capped
scheduleReconnect_NoCap(S, e) ==
    IF S.reconnectTimer[e] THEN S
    ELSE [S EXCEPT !.reconnectTimer[e] = TRUE,
                   !.reconnectDelay[e] = S.backoffMs[e],
                   !.backoffMs[e] = S.backoffMs[e] * 2]

\* scheduleReconnect that arms no timer
scheduleReconnect_NoTimer(S, e) == S

\* scheduleReconnect(state); shouldRun is true for every endpoint of the
\* resolved set
scheduleReconnect(S, e) ==
    IF S.reconnectTimer[e] THEN S
    ELSE [S EXCEPT !.reconnectTimer[e] = TRUE,
                   !.reconnectDelay[e] = S.backoffMs[e],
                   !.backoffMs[e] = Min(MAX_RECONNECT_MS, S.backoffMs[e] * 2)]

\* connectEndpoint without its early returns: a socket is created on every
\* request
connectEndpoint_Unguarded(S, e) ==
    LET S1 == [S EXCEPT !.connecting[e] = TRUE,
                        !.wsState[e] = "CONNECTING",
                        !.socketStates = @ \ {KeyOf(S, e)},
                        !.socketKey[e] = @ + 1]
    IN [S1 EXCEPT !.socketStates = @ \cup {KeyOf(S1, e)},
                  !.openTimer[e] = TRUE]

\* connectEndpoint(state)
connectEndpoint(S, e) ==
    IF socketIsOpen(S, e) \/ S.connecting[e] \/ S.wsState[e] = "CONNECTING"
    THEN S
    ELSE LET S1 == [S EXCEPT !.connecting[e] = TRUE,
                             !.wsState[e] = "CONNECTING",
                             !.socketStates = @ \ {KeyOf(S, e)},
                             !.socketKey[e] = @ + 1]
         IN [S1 EXCEPT !.socketStates = @ \cup {KeyOf(S1, e)},
                       !.openTimer[e] = TRUE]

(***************************************************************************)
(* Endpoint resolution and the sticky endpoint of offscreen.js.  A URL      *)
(* string as it is typed is a record of its scheme, host, port and path     *)
(* (scheme "" for a string that new URL() rejects, port 0 for no port); an  *)
(* endpoint string `${protocol}://${host}:${port}` is a record of the       *)
(* three parts.  A configured value is the sequence of the comma-separated  *)
(* URLs in it, empty for an unset or empty value.                           *)
(***************************************************************************)
BASE_PORT == 8766
MAX_PORT_EXCLUSIVE == BASE_PORT + 10
DEFAULT_HOST_CANDIDATES == <<"localhost", "127.0.0.1", "wsl.localhost">>

Endpoint(protocol, h, p) == [protocol |-> protocol, host |-> h, port |-> p]
Raw(scheme, h, p, path) == [scheme |-> scheme, host |-> h, port |-> p, path |-> path]

DEFAULT_WS_URL == Endpoint("ws", "localhost", BASE_PORT)

\* null
NullUrl == Endpoint("", "", 0)

\* the string of an endpoint, as handed to new URL()
ToRaw(u) == Raw(u.protocol, u.host, u.port, "")

\* url.port of new URL(input): empty for no port and for the default port of
\* the scheme
urlPort(raw) ==
    IF (raw.scheme \in {"ws", "http"} /\ raw.port = 80)
       \/ (raw.scheme \in {"wss", "https"} /\ raw.port = 443)
    THEN 0
    ELSE raw.port

\* normalizeWsUrl(input)
normalizeWsUrl(raw) ==
    IF raw.scheme \notin {"ws", "wss"} THEN NullUrl
    ELSE IF urlPort(raw) = 0 THEN NullUrl
    ELSE Endpoint(raw.scheme, raw.host, urlPort(raw))

\* parseWsUrl(input): the URL object of the normalized string
parseWsUrl(raw) == normalizeWsUrl(raw)

\* [...new Set(list)] that keeps the repeats
Dedupe_KeepsAll(list) == list

\* [...new Set(list)]: the first occurrence of every value, in order
Dedupe(list) ==
    LET first == {i \in 1..Len(list) : \A j \in 1..(i - 1) : list[j] # list[i]}
        rank(i) == Cardinality({k \in first : k <= i})
    IN [n \in 1..Cardinality(first) |-> list[CHOOSE i \in first : rank(i) = n]]

\* the concatenation of the lists of a list
Flatten(lists) ==
    LET F[i \in 0..Len(lists)] ==
        IF i = 0 THEN << >> ELSE F[i - 1] \o lists[i]
    IN F[Len(lists)]

\* buildDefaultEndpoints()
buildDefaultEndpoints ==
    Dedupe(Flatten([i \in 1..(MAX_PORT_EXCLUSIVE - BASE_PORT) |->
                      [j \in 1..Len(DEFAULT_HOST_CANDIDATES) |->
                          Endpoint("ws", DEFAULT_HOST_CANDIDATES[j], BASE_PORT + i - 1)]]))

\* endpointCandidatesForUrl(urlObj)
endpointCandidatesForUrl(urlObj) ==
    LET protocol == IF urlObj.protocol = "wss" THEN "wss" ELSE "ws"
        p == urlObj.port
        h == urlObj.host
    IN Dedupe(<<Endpoint(protocol, h, p)>>
              \o (IF h = "0.0.0.0"
                  THEN [j \in 1..Len(DEFAULT_HOST_CANDIDATES) |->
                           Endpoint(protocol, DEFAULT_HOST_CANDIDATES[j], p)]
                  ELSE << >>)
              \o (IF h = "localhost"
                  THEN <<Endpoint(protocol, "127.0.0.1", p),
                         Endpoint(protocol, "wsl.localhost", p)>>
                  ELSE << >>)
              \o (IF h = "127.0.0.1"
                  THEN <<Endpoint(protocol, "localhost", p),
                         Endpoint(protocol, "wsl.localhost", p)>>
                  ELSE << >>))

\* the values of a list that are not null
NonNull(list) ==
    LET isUrl(value) == value # NullUrl
    IN SelectSeq(list, isUrl)

\* parseSeedEndpoints(configWsUrl, hasExplicitStorageWsUrl)
parseSeedEndpoints(configWsUrl, hasExplicitStorageWsUrl) ==
    IF Len(configWsUrl) >= 2
    THEN Dedupe(NonNull([i \in 1..Len(configWsUrl) |-> normalizeWsUrl(configWsUrl[i])]))
    ELSE LET normalized == IF configWsUrl = << >> THEN NullUrl
                           ELSE normalizeWsUrl(configWsUrl[1])
         IN IF normalized = NullUrl THEN << >>
            ELSE IF normalized = DEFAULT_WS_URL /\ ~hasExplicitStorageWsUrl THEN << >>
            ELSE <<normalized>>

\* the list prioritized of resolveEndpoints: every seed followed by its
\* candidates
prioritized(seeds) ==
    Flatten([i \in 1..Len(seeds) |->
               <<seeds[i]>> \o (IF parseWsUrl(ToRaw(seeds[i])) = NullUrl THEN << >>
                                ELSE endpointCandidatesForUrl(parseWsUrl(ToRaw(seeds[i]))))])

\* resolveEndpoints that puts the default sweep first
resolveEndpoints_DefaultsFirst(configWsUrl, hasExplicitStorageWsUrl) ==
    LET defaults == buildDefaultEndpoints
        seeds == parseSeedEndpoints(configWsUrl, hasExplicitStorageWsUrl)
    IN IF Len(seeds) = 0 THEN defaults
       ELSE Dedupe(defaults \o prioritized(seeds))

\* resolveEndpoints(configWsUrl, hasExplicitStorageWsUrl)
resolveEndpoints(configWsUrl, hasExplicitStorageWsUrl) ==
    LET defaults == buildDefaultEndpoints
        seeds == parseSeedEndpoints(configWsUrl, hasExplicitStorageWsUrl)
    IN IF Len(seeds) = 0 THEN defaults
       ELSE Dedupe(prioritized(seeds) \o defaults)

\* endpoints.includes(value)
includes(endpoints, value) == \E i \in 1..Len(endpoints) : endpoints[i] = value

\* endpoints.filter((value) => value !== removed)
without(endpoints, removed) ==
    LET differs(value) == value # removed
    IN SelectSeq(endpoints, differs)

\* reorderEndpointsWithSticky(endpoints) that leaves the list as resolved
reorderEndpointsWithSticky_Unordered(endpoints, sticky) == endpoints

\* reorderEndpointsWithSticky(endpoints), with the module variable
\* stickyEndpoint as sticky
reorderEndpointsWithSticky(endpoints, sticky) ==
    IF sticky = NullUrl THEN endpoints
    ELSE IF ~includes(endpoints, sticky) THEN endpoints
    ELSE <<sticky>> \o without(endpoints, sticky)

\* loadConfig(): the stored value if it is a non-empty string, else the
\* background's, else the default
loadConfig(stored, background) ==
    LET hasExplicitStorageWsUrl == stored # << >>
    IN [wsUrl |-> IF hasExplicitStorageWsUrl THEN stored
                  ELSE IF background # << >> THEN background
                  ELSE <<ToRaw(DEFAULT_WS_URL)>>,
        hasExplicitStorageWsUrl |-> hasExplicitStorageWsUrl]

\* DEFAULT_STATUS; wsUrl is the list of the endpoints joined by commas in it
DEFAULT_STATUS ==
    [connected |-> FALSE, wsUrl |-> <<DEFAULT_WS_URL>>,
     connectedEndpoints |-> << >>, disconnectedEndpoints |-> << >>]

\* the wsUrl of the endpoint states in S whose connected flag is wanted,
\* in the order of the Map endpointStates
endpointsWith(S, wanted) ==
    LET F[i \in 0..NumEndpoints] ==
        IF i = 0 THEN << >>
        ELSE IF S.connected[i] = wanted
             THEN Append(F[i - 1], S.configuredEndpoints[i])
             ELSE F[i - 1]
    IN F[NumEndpoints]

\* collectStatus() that publishes the primary URL
collectStatus_PrimaryUrl(S) ==
    LET connectedEndpoints == endpointsWith(S, TRUE)
        primaryUrl == IF connectedEndpoints # << >> THEN connectedEndpoints[1]
                      ELSE IF S.configuredEndpoints # << >> THEN S.configuredEndpoints[1]
                      ELSE DEFAULT_WS_URL
    IN [connected |-> Len(connectedEndpoints) > 0,
        wsUrl |-> <<primaryUrl>>,
        connectedEndpoints |-> connectedEndpoints,
        disconnectedEndpoints |-> endpointsWith(S, FALSE)]

\* collectStatus()
collectStatus(S) ==
    LET connectedEndpoints == endpointsWith(S, TRUE)
        primaryUrl == IF connectedEndpoints # << >> THEN connectedEndpoints[1]
                      ELSE IF S.configuredEndpoints # << >> THEN S.configuredEndpoints[1]
                      ELSE DEFAULT_WS_URL
    IN [connected |-> Len(connectedEndpoints) > 0,
        wsUrl |-> IF Len(connectedEndpoints) > 0 THEN connectedEndpoints
                  ELSE <<primaryUrl>>,
        connectedEndpoints |-> connectedEndpoints,
        disconnectedEndpoints |-> endpointsWith(S, FALSE)]

\* publishAggregateStatus(), up to the message to the background
publishAggregateStatus(S) == [S EXCEPT !.currentStatus = collectStatus(S)]

\* the supervisor before connectLoop has run, nothing stored
EInit ==
    /\ storedWsUrl = << >>
    /\ backgroundWsUrl = << >>
    /\ storedSticky = NullUrl
    /\ lastSetFailed = FALSE

\* persistStickyEndpoint that only remembers the endpoint
persistStickyEndpoint_NoWrite(S, wsUrl) ==
    LET normalized == normalizeWsUrl(ToRaw(wsUrl))
    IN IF normalized = NullUrl THEN S
       ELSE [S EXCEPT !.stickyEndpoint = normalized]

\* persistStickyEndpoint(wsUrl), up to the call of chrome.storage.local.set
persistStickyEndpoint(S, wsUrl) ==
    LET normalized == normalizeWsUrl(ToRaw(wsUrl))
    IN IF normalized = NullUrl THEN S
       ELSE IF S.stickyEndpoint = normalized THEN S
       ELSE [S EXCEPT !.stickyEndpoint = normalized,
                      !.stickyWrites = Append(@, normalized)]

\* the module state of a freshly loaded document
reloaded(S) ==
    [S EXCEPT !.wsState = [e \in Endpoints |-> "NONE"],
              !.socketKey = [e \in Endpoints |-> 0],
              !.socketStates = {},
              !.connecting = [e \in Endpoints |-> FALSE],
              !.reconnectTimer = [e \in Endpoints |-> FALSE],
              !.openTimer = [e \in Endpoints |-> FALSE],
              !.backoffMs = [e \in Endpoints |-> BASE_RECONNECT_MS],
              !.consecutiveFailures = [e \in Endpoints |-> 0],
              !.reconnectDelay = [e \in Endpoints |-> 0],
              !.pendingQueue = << >>,
              !.pendingBySocketKey = << >>,
              !.activeRequestIds = {},
              !.recentlyCompletedIds = << >>,
              !.queueRunning = FALSE,
              !.executing = {},
              !.stickyEndpoint = NullUrl,
              !.configuredEndpoints = << >>,
              !.connected = [e \in Endpoints |-> FALSE],
              !.currentStatus = DEFAULT_STATUS]

SInit ==
    /\ now = 0
    /\ ticks = 0
    /\ wsState = [e \in Endpoints |-> "NONE"]
    /\ socketKey = [e \in Endpoints |-> 0]
    /\ socketStates = {}
    /\ connecting = [e \in Endpoints |-> FALSE]
    /\ reconnectTimer = [e \in Endpoints |-> FALSE]
    /\ openTimer = [e \in Endpoints |-> FALSE]
    /\ backoffMs = [e \in Endpoints |-> BASE_RECONNECT_MS]
    /\ consecutiveFailures = [e \in Endpoints |-> 0]
    /\ reconnectDelay = [e \in Endpoints |-> 0]
    /\ pendingQueue = << >>
    /\ pendingBySocketKey = << >>
    /\ activeRequestIds = {}
    /\ recentlyCompletedIds = << >>
    /\ queueRunning = FALSE
    /\ executing = {}
    /\ admitCount = [id \in Ids |-> 0]
    /\ execCount = [id \in Ids |-> 0]
    /\ lastStarted = 0
    /\ doneAt = [id \in Ids |-> -1]
    /\ lastOpened = NullUrl
    /\ opened = {}
    /\ out = << >>
    /\ stickyEndpoint = NullUrl
    /\ configuredEndpoints = << >>
    /\ stickyWrites = << >>
    /\ connected = [e \in Endpoints |-> FALSE]
    /\ currentStatus = DEFAULT_STATUS

(***************************************************************************)
(* The delay before a retry, retryDelay of src/src/ws-bridge.ts            *)
(***************************************************************************)
BASE_RETRY_BACKOFF_MS == 150
MAX_RETRY_BACKOFF_MS == 2000
RETRY_JITTER_MAX_MS == 100
\* Math.random() is k / RandomSteps for k in 0..RandomSteps-1
RandomSteps == 20

\* the delay computed from the attempt to come instead of the one that failed
retryDelay_NextAttempt(attemptNo, jitterMaxMs, rnd) ==
    LET backoff == Min(MAX_RETRY_BACKOFF_MS, BASE_RETRY_BACKOFF_MS * 2 ^ Max(0, attemptNo))
        jitter == (rnd * jitterMaxMs) \div RandomSteps
    IN backoff + jitter

\* the delay of retryDelay(attempt, reason), attemptNo its attempt: backoff + jitter
retryDelay(attemptNo, jitterMaxMs, rnd) ==
    LET backoff == Min(MAX_RETRY_BACKOFF_MS,
                       BASE_RETRY_BACKOFF_MS * 2 ^ Max(0, attemptNo - 1))
        \* Math.floor(Math.random() * this.retryJitterMaxMs)
        jitter == (rnd * jitterMaxMs) \div RandomSteps
    IN backoff + jitter

\* no retry yet, the default jitter
RInit ==
    /\ retryAttempt = 1
    /\ retryJitterMaxMs = RETRY_JITTER_MAX_MS
    /\ random = 0
    /\ delayMs = -1

HEARTBEAT_INTERVAL_MS == 10000

\* no client yet, the default interval and timeout
HInit ==
    /\ hbNow = 0
    /\ nextTickAt = 0
    /\ heartbeatIntervalMs = HEARTBEAT_INTERVAL_MS
    /\ pongTimeoutMs = PONG_TIMEOUT_MS
    /\ isClient = FALSE
    /\ lastPongAt = 0
    /\ pingsInFlight = 0
    /\ pongsInFlight = 0
    /\ missedPing = FALSE
    /\ pongTimeoutClosed = FALSE

\* calls of withCommandLock of one run of the background worker
NumLockCalls == 4
LockCalls == 1..NumLockCalls

\* the module is loaded: commandLock = Promise.resolve()
BInit ==
    /\ commandLock = 0
    /\ lockPrev = [c \in LockCalls |-> 0]
    /\ lockPhase = [c \in LockCalls |-> "idle"]
    /\ lockCmd = [c \in LockCalls |-> "none"]
    /\ released = [c \in LockCalls |-> FALSE]
    /\ startOrder = << >>

XInit == RInit /\ HInit /\ BInit

\* retryPending calls retryDelay(pending.attempt, fallbackError)
RetryDelay ==
    /\ delayMs = -1
    /\ delayMs' = retryDelay(retryAttempt, retryJitterMaxMs, random)
    /\ UNCHANGED <<retryAttempt, retryJitterMaxMs, random>>
    /\ UNCHANGED <<dvars, svars, pvars, evars, mvars, avars, hvars, bvars>>

(***************************************************************************)
(* The heartbeat of one client with its clock, src/src/ws-bridge.ts, and   *)
(* the answer of the supervisor, src/chrome-extension/offscreen.js         *)
(***************************************************************************)
\* the clock of the heartbeat advances in steps of HbStep up to MaxHbNow
HbStep == 5000
MaxHbNow == 60000

\* a pong that leaves client.lastPongAt as it is
onPong_Ignored(last, nowMs) == last

\* client.lastPongAt = Date.now() of the pong branch
onPong(last, nowMs) == nowMs

HbUnchanged == UNCHANGED <<dvars, svars, pvars, evars, mvars, avars, rvars, bvars>>

\* the hello branch of onConnection: the client is entered with lastPongAt =
\* Date.now(), and startPing() starts the interval unless it is running
HbHello ==
    /\ ~isClient /\ ~pongTimeoutClosed
    /\ isClient' = TRUE
    /\ lastPongAt' = hbNow
    /\ nextTickAt' = IF nextTickAt > 0 THEN nextTickAt ELSE hbNow + heartbeatIntervalMs
    /\ UNCHANGED <<hbNow, heartbeatIntervalMs, pongTimeoutMs, pingsInFlight,
                   pongsInFlight, missedPing, pongTimeoutClosed>>
    /\ HbUnchanged

\* time passes, up to the next tick of the interval
HbTimePasses ==
    /\ hbNow + HbStep <= MaxHbNow
    /\ nextTickAt > 0 => hbNow + HbStep <= nextTickAt
    /\ hbNow' = hbNow + HbStep
    /\ UNCHANGED <<nextTickAt, heartbeatIntervalMs, pongTimeoutMs, isClient, lastPongAt,
                   pingsInFlight, pongsInFlight, missedPing, pongTimeoutClosed>>
    /\ HbUnchanged

\* one tick of the interval of startPing() for the client, its socket OPEN:
\* close it with 4002 pong_timeout and remove the client when the last pong
\* is older than pongTimeoutMs, send a ping otherwise
HbTick ==
    /\ nextTickAt > 0 /\ hbNow = nextTickAt
    /\ nextTickAt' = hbNow + heartbeatIntervalMs
    /\ IF ~isClient
       THEN UNCHANGED <<isClient, pingsInFlight, missedPing, pongTimeoutClosed>>
       ELSE /\ missedPing' = (missedPing \/ pingsInFlight + pongsInFlight > 0)
            /\ IF hbNow - lastPongAt > pongTimeoutMs
               THEN /\ pongTimeoutClosed' = TRUE
                    /\ isClient' = FALSE
                    /\ UNCHANGED pingsInFlight
               ELSE /\ pingsInFlight' = pingsInFlight + 1
                    /\ UNCHANGED <<isClient, pongTimeoutClosed>>
    /\ UNCHANGED <<hbNow, heartbeatIntervalMs, pongTimeoutMs, lastPongAt, pongsInFlight>>
    /\ HbUnchanged

\* ws.onmessage of the supervisor with a ping frame: it sends a pong
SupervisorOnPing ==
    /\ pingsInFlight > 0
    /\ pingsInFlight' = pingsInFlight - 1
    /\ pongsInFlight' = pongsInFlight + 1
    /\ UNCHANGED <<hbNow, nextTickAt, heartbeatIntervalMs, pongTimeoutMs, isClient,
                   lastPongAt, missedPing, pongTimeoutClosed>>
    /\ HbUnchanged

\* the pong branch of onConnection: a client of the table gets lastPongAt =
\* Date.now()
HbOnPong ==
    /\ pongsInFlight > 0
    /\ pongsInFlight' = pongsInFlight - 1
    /\ lastPongAt' = IF isClient THEN onPong(lastPongAt, hbNow) ELSE lastPongAt
    /\ UNCHANGED <<hbNow, nextTickAt, heartbeatIntervalMs, pongTimeoutMs, isClient,
                   pingsInFlight, missedPing, pongTimeoutClosed>>
    /\ HbUnchanged

(***************************************************************************)
(* The command lock of src/chrome-extension/background.js                  *)
(***************************************************************************)
LockUnchanged == UNCHANGED <<dvars, svars, pvars, evars, mvars, avars, rvars, hvars>>

\* the finally of withCommandLock skipped when fn throws
release_UnlessThrown(rel, c, throws) ==
    IF throws THEN rel ELSE [rel EXCEPT ![c] = TRUE]

\* the finally of withCommandLock: release()
release(rel, c, throws) == [rel EXCEPT ![c] = TRUE]

\* the promise prev of call c is settled
prevSettled(c) == IF lockPrev[c] = 0 THEN TRUE ELSE released[lockPrev[c]]

\* captureScreenshot(params) or openUrl(params) is called: withCommandLock
\* up to await prev
LockCall(c, cmd) ==
    /\ lockPhase[c] = "idle"
    /\ \A b \in LockCalls : b < c => lockPhase[b] # "idle"
    /\ lockPrev' = [lockPrev EXCEPT ![c] = commandLock]
    /\ commandLock' = c
    /\ lockPhase' = [lockPhase EXCEPT ![c] = "waiting"]
    /\ lockCmd' = [lockCmd EXCEPT ![c] = cmd]
    /\ UNCHANGED <<released, startOrder>>
    /\ LockUnchanged

\* await prev resumes: fn() is called
LockEnter(c) ==
    /\ lockPhase[c] = "waiting"
    /\ prevSettled(c)
    /\ lockPhase' = [lockPhase EXCEPT ![c] = "running"]
    /\ startOrder' = Append(startOrder, c)
    /\ UNCHANGED <<commandLock, lockPrev, lockCmd, released>>
    /\ LockUnchanged

\* fn() settles: the finally block
LockLeave(c, throws) ==
    /\ lockPhase[c] = "running"
    /\ lockPhase' = [lockPhase EXCEPT ![c] = IF throws THEN "threw" ELSE "returned"]
    /\ released' = release(released, c, throws)
    /\ UNCHANGED <<commandLock, lockPrev, lockCmd, startOrder>>
    /\ LockUnchanged

(***************************************************************************)
(* The argument parsers, src/src/artifacts.ts                              *)
(***************************************************************************)
MAX_TIMEOUT_MS == 120000
MAX_EXTRA_WAIT_MS == 10000
MAX_CLEANUP_HOURS == 24 * 365 * 10

\* JavaScript values as the parsers see them: typeof, for a number whether
\* it is finite, NaN or an infinity, and for a finite number its value
ArgNum(n) == [type |-> "number", kind |-> "finite", n |-> n]
NaN == [type |-> "number", kind |-> "NaN", n |-> 0]
Infinity == [type |-> "number", kind |-> "Infinity", n |-> 0]
NegInfinity == [type |-> "number", kind |-> "-Infinity", n |-> 0]
ArgStr(s) == [type |-> "string", kind |-> s, n |-> 0]
ArgUndefined == [type |-> "undefined", kind |-> "", n |-> 0]

\* Number.isFinite(v) for a value of type number
isFinite(v) == v.kind = "finite"

asNum(v, fallback) ==
    IF v.type = "number" /\ isFinite(v) THEN v.n ELSE fallback

clamp_NoUpperBound(n, min, max) == Max(min, n)

clamp(n, min, max) == Min(max, Max(min, n))

\* what a parser did: nothing yet, returned these numbers, or threw
NoParams ==
    [status |-> "none", timeoutMs |-> 0, extraWaitMs |-> 0, jpegQuality |-> 0,
     maxAgeHours |-> 0]
Threw == [NoParams EXCEPT !.status = "threw"]

\* new URL(url) of parseScreenshotArgs with url = asStr(a.url, DEFAULT_URL)
urlParses(v) == ~(v.type = "string" /\ v.kind = "not a url")

\* the numeric fields of parseScreenshotArgs(a)
parseScreenshotArgs(a) ==
    IF ~urlParses(a.url) THEN Threw
    ELSE [NoParams EXCEPT
            !.status = "returned",
            !.timeoutMs = clamp(asNum(a.timeoutMs, 15000), 1000, MAX_TIMEOUT_MS),
            !.extraWaitMs = clamp(asNum(a.extraWaitMs, 250), 0, MAX_EXTRA_WAIT_MS),
            !.jpegQuality = clamp(asNum(a.jpegQuality, 80), 0, 100)]

\* the numeric field of parseCleanupArtifactsArgs(a)
parseCleanupArtifactsArgs(a) ==
    [NoParams EXCEPT
        !.status = "returned",
        !.maxAgeHours = clamp(asNum(a.maxAgeHours, 24), 1, MAX_CLEANUP_HOURS)]

\* no tool call yet
AInit ==
    /\ args = [url |-> ArgUndefined, timeoutMs |-> ArgUndefined, extraWaitMs |-> ArgUndefined,
               jpegQuality |-> ArgUndefined, maxAgeHours |-> ArgUndefined]
    /\ screenshotParams = NoParams
    /\ cleanupParams = NoParams

\* the chrome_screenshot handler parses its arguments
ParseScreenshot ==
    /\ screenshotParams = NoParams
    /\ screenshotParams' = parseScreenshotArgs(args)
    /\ UNCHANGED <<args, cleanupParams, dvars, svars, pvars, evars, mvars, xvars>>

\* the cleanup handler parses its arguments
ParseCleanup ==
    /\ cleanupParams = NoParams
    /\ cleanupParams' = parseCleanupArtifactsArgs(args)
    /\ UNCHANGED <<args, screenshotParams, dvars, svars, pvars, evars, mvars, xvars>>

\* no error yet
NoError == Err("none")

Init ==
    /\ DInit
    /\ SInit
    /\ EInit
    /\ MInit
    /\ AInit
    /\ XInit
    /\ wireError = NonObject("undefined")
    /\ thrown = NoError

\* a res frame with ok=false and any msg.error is about to be handled
WireInit ==
    /\ DInit
    /\ SInit
    /\ EInit
    /\ MInit
    /\ AInit
    /\ XInit
    /\ wireError \in ErrorInputs
    /\ thrown = NoError

ClockUnchanged == UNCHANGED <<now, ticks>>

\* connectLoop(), run once when the document loads; getOk: the read of the
\* sticky endpoint succeeds.  The store answers a read after the writes made
\* before it.  The model follows the first NumEndpoints endpoints of the
\* list: endpoint e is configuredEndpoints[e].
connectLoop(getOk) ==
    /\ \A e \in Endpoints : wsState[e] = "NONE"
    /\ stickyWrites = << >>
    /\ LET sticky == IF getOk THEN normalizeWsUrl(ToRaw(storedSticky)) ELSE NullUrl
           cfg == loadConfig(storedWsUrl, backgroundWsUrl)
           endpoints == reorderEndpointsWithSticky(
                            resolveEndpoints(cfg.wsUrl, cfg.hasExplicitStorageWsUrl),
                            sticky)
           F[i \in 0..NumEndpoints] ==
               IF i = 0
               THEN [SState EXCEPT !.stickyEndpoint = sticky,
                                   !.configuredEndpoints = endpoints,
                                   !.opened = {}]
               ELSE connectEndpoint(F[i - 1], i)
       IN SetSState(publishAggregateStatus(F[NumEndpoints]))
    /\ ClockUnchanged

\* ws.onopen
OnOpen(e) ==
    /\ wsState[e] = "CONNECTING"
    /\ SetSState(publishAggregateStatus(persistStickyEndpoint(
                   [SState EXCEPT !.wsState[e] = "OPEN",
                                  !.openTimer[e] = FALSE,
                                  !.connecting[e] = FALSE,
                                  !.connected[e] = TRUE,
                                  !.consecutiveFailures[e] = 0,
                                  !.backoffMs[e] = BASE_RECONNECT_MS,
                                  !.lastOpened = configuredEndpoints[e],
                                  !.opened = @ \cup {configuredEndpoints[e]},
                                  !.out = << [socketKey |-> KeyOf(SState, e), id |-> 0,
                                              ok |-> TRUE, reason |-> "hello",
                                              code |-> "hello", retryable |-> FALSE] >>],
                   configuredEndpoints[e])))
    /\ ClockUnchanged

\* the closing handshake starts on an open socket
Closing(e) ==
    /\ wsState[e] = "OPEN"
    /\ SetSState([SState EXCEPT !.wsState[e] = "CLOSING"])
    /\ ClockUnchanged

\* the openTimer callback: ws.close(4001, "open_timeout")
OpenTimeout(e) ==
    /\ openTimer[e]
    /\ SetSState([SState EXCEPT !.wsState[e] = "CLOSING", !.openTimer[e] = FALSE])
    /\ ClockUnchanged

\* ws.onerror (when the socket failed) followed by ws.onclose
OnClose(e) ==
    /\ wsState[e] \in {"CONNECTING", "OPEN", "CLOSING"}
    /\ SetSState(scheduleReconnect(
                   publishAggregateStatus(
                     finalizeSocket([SState EXCEPT !.wsState[e] = "CLOSED",
                                                   !.openTimer[e] = FALSE,
                                                   !.connecting[e] = FALSE,
                                                   !.consecutiveFailures[e] = @ + 1],
                                    e)),
                   e))
    /\ ClockUnchanged

\* the reconnectTimer callback, while fewer than n sockets have been created
reconnectTimerCallback(e, n) ==
    /\ reconnectTimer[e]
    /\ Sum(socketKey, NumEndpoints) < n
    /\ SetSState(connectEndpoint([SState EXCEPT !.reconnectTimer[e] = FALSE,
                                                !.reconnectDelay[e] = 0], e))
    /\ ClockUnchanged

\* the reconnectTimer callback
ReconnectTimerFire(e) == reconnectTimerCallback(e, MaxSockets)

\* the reconnectTimer callback in a run of connection events only
ReconnectTimerFireAgain(e) == reconnectTimerCallback(e, MaxReconnectSockets)

\* ws.onmessage with a cmd frame
OnCmd(e, id) ==
    /\ wsState[e] = "OPEN"
    /\ Sum(enqueueCommand(SState, e, id).admitCount, NumIds) <= MaxAdmits
    \* request ids are opaque: a run numbers them as they are first admitted
    /\ \A j \in Ids : j < id => admitCount[j] > 0
    /\ SetSState(enqueueCommand(SState, e, id))
    /\ ClockUnchanged

\* sendToBackground settles: the rest of the loop body of processQueue and
\* the loop up to its next await
BackgroundReturns(item, throws) ==
    /\ item \in executing
    /\ LET e == item.socketKey[1]
           S0 == [SState EXCEPT !.executing = @ \ {item}]
           S1 == IF throws
                 THEN sendErrorToSocket(S0, e, item.id, "undefined", "undefined", FALSE)
                 ELSE IF socketIsOpen(S0, e)
                 THEN [S0 EXCEPT !.out = Append(@, [socketKey |-> KeyOf(S0, e),
                                                    id |-> item.id, ok |-> TRUE,
                                                    reason |-> "none", code |-> "none",
                                                    retryable |-> FALSE])]
                 ELSE S0
       IN SetSState(drain(pruneCompletedRequestIds(
                            markRequestComplete(
                              unregisterSocketPending(S1, item.socketKey, item.id),
                              item.id),
                            now)))
    /\ ClockUnchanged

\* the clock advances
Tick(d) ==
    /\ ticks < MaxTicks
    /\ now' = now + d
    /\ ticks' = ticks + 1
    /\ UNCHANGED <<wsState, socketKey, socketStates, connecting, reconnectTimer,
                   openTimer, backoffMs, consecutiveFailures, reconnectDelay,
                   pendingQueue, pendingBySocketKey, activeRequestIds,
                   recentlyCompletedIds, queueRunning, executing, admitCount,
                   execCount, lastStarted, doneAt, lastOpened, opened, out,
                   stickyEndpoint, configuredEndpoints, stickyWrites, connected,
                   currentStatus>>
    /\ UNCHANGED <<dvars, pvars, evars, mvars, avars, xvars>>

\* the callback of the oldest chrome.storage.local.set call; ok: no
\* chrome.runtime.lastError
StorageSetDone(ok) ==
    /\ stickyWrites # << >>
    /\ storedSticky' = IF ok THEN Head(stickyWrites) ELSE storedSticky
    /\ lastSetFailed' = ~ok
    /\ SetSVars([SState EXCEPT !.stickyWrites = Tail(@)])
    /\ UNCHANGED <<storedWsUrl, backgroundWsUrl, dvars, pvars, mvars, avars, xvars>>
    /\ ClockUnchanged

\* the document is loaded again, with cfg stored as the configured URL: the
\* storage.onChanged listener reloads the extension when the value changes
Restart(cfg) ==
    /\ \E e \in Endpoints : wsState[e] # "NONE"
    /\ storedWsUrl' = cfg
    /\ SetSVars(reloaded(SState))
    /\ UNCHANGED <<backgroundWsUrl, storedSticky, lastSetFailed, dvars, pvars, mvars, avars, xvars>>
    /\ ClockUnchanged

SNext ==
    \/ \E getOk \in BOOLEAN : connectLoop(getOk)
    \/ \E e \in Endpoints : OnOpen(e)
    \/ \E e \in Endpoints : Closing(e)
    \/ \E e \in Endpoints : OpenTimeout(e)
    \/ \E e \in Endpoints : OnClose(e)
    \/ \E e \in Endpoints : ReconnectTimerFire(e)
    \/ \E e \in Endpoints, id \in Ids : OnCmd(e, id)
    \/ \E item \in executing, throws \in BOOLEAN : BackgroundReturns(item, throws)
    \/ \E d \in TickDeltas : Tick(d)

(***************************************************************************)
(* Specifications                                                          *)
(***************************************************************************)
DispatcherSpec == Init /\ [][DNext]_vars

SupervisorSpec == Init /\ [][SNext]_vars

\* the connection events of the supervisor: no command arrives
ReconnectNext ==
    \/ \E getOk \in BOOLEAN : connectLoop(getOk)
    \/ \E e \in Endpoints : OnOpen(e)
    \/ \E e \in Endpoints : Closing(e)
    \/ \E e \in Endpoints : OpenTimeout(e)
    \/ \E e \in Endpoints : OnClose(e)
    \/ \E e \in Endpoints : ReconnectTimerFireAgain(e)

ReconnectSpec == Init /\ [][ReconnectNext]_vars

\* the close event of a socket that is in its closing handshake
CloseEvent_AfterClosing(e) == wsState[e] = "CLOSING" /\ OnClose(e)

\* the steps the event loop takes by itself: connectLoop when the document
\* is loaded, the callback of an armed timer, the close event of a closing
\* socket
ReconnectProgress ==
    \/ \E getOk \in BOOLEAN : connectLoop(getOk)
    \/ \E e \in Endpoints : OpenTimeout(e)
    \/ \E e \in Endpoints : CloseEvent_AfterClosing(e)
    \/ \E e \in Endpoints : ReconnectTimerFireAgain(e)

\* one of these steps can be taken: ENABLED <<ReconnectProgress>>_vars
ReconnectDue ==
    \/ (\A e \in Endpoints : wsState[e] = "NONE") /\ stickyWrites = << >>
    \/ \E e \in Endpoints : openTimer[e]
    \/ \E e \in Endpoints : wsState[e] = "CLOSING"
    \/ \E e \in Endpoints :
          reconnectTimer[e] /\ Sum(socketKey, NumEndpoints) < MaxReconnectSockets

\* WF_vars(ReconnectProgress), with ENABLED written out: the event loop does
\* not stop while one of these steps is due; no socket identity repeats, so
\* no endpoint can be overtaken for ever
ReconnectFairness == []<>(~ReconnectDue) \/ []<><<ReconnectProgress>>_vars

ReconnectLiveSpec == Init /\ [][ReconnectNext]_vars /\ ReconnectFairness

\* the commands of one session per endpoint: sockets open and close and do
\* not reconnect
QueueNext ==
    \/ \E getOk \in BOOLEAN : connectLoop(getOk)
    \/ \E e \in Endpoints : OnOpen(e)
    \/ \E e \in Endpoints : OnClose(e)
    \/ \E e \in Endpoints, id \in Ids : OnCmd(e, id)
    \/ \E item \in executing, throws \in BOOLEAN : BackgroundReturns(item, throws)
    \/ \E d \in TickDeltas : Tick(d)

\* sendToBackground settles
BackgroundSettles == \E item \in executing, throws \in BOOLEAN : BackgroundReturns(item, throws)

\* WF_vars(BackgroundSettles), with ENABLED written out: every invocation of
\* the browser operation returns
QueueFairness == []<>(executing = {}) \/ []<><<BackgroundSettles>>_vars

QueueLiveSpec == Init /\ [][QueueNext]_vars /\ QueueFairness

\* the configured URL is unset, a remote host with a path, or the wildcard
\* address on a port of the default sweep
StickyConfigs ==
    { << >>,
      <<Raw("ws", "example.com", 9000, "/x")>>,
      <<Raw("ws", "0.0.0.0", BASE_PORT + 4, "")>> }

StickyInit ==
    /\ DInit
    /\ SInit
    /\ MInit
    /\ AInit
    /\ XInit
    /\ storedWsUrl \in StickyConfigs
    /\ backgroundWsUrl = << >>
    /\ storedSticky = NullUrl
    /\ lastSetFailed = FALSE
    /\ wireError = NonObject("undefined")
    /\ thrown = NoError

\* the connection events of the supervisor, the store and reloads
StickyNext ==
    \/ \E getOk \in BOOLEAN : connectLoop(getOk)
    \/ \E e \in Endpoints : OnOpen(e)
    \/ \E e \in Endpoints : OnClose(e)
    \/ \E e \in Endpoints : ReconnectTimerFire(e)
    \/ \E ok \in BOOLEAN : StorageSetDone(ok)
    \/ \E cfg \in StickyConfigs : Restart(cfg)

StickySpec == StickyInit /\ [][StickyNext]_vars

\* URL strings a configured value is made of: with and without a port, with
\* the default port of the scheme, inside and outside the default sweep,
\* with a path, with another scheme, and not a URL at all
ConfigUrls ==
    {Raw(scheme, h, p, path) :
        scheme \in {"ws", "wss", "http", ""},
        h \in {"localhost", "127.0.0.1", "wsl.localhost", "0.0.0.0", "example.com"},
        p \in {0, 80, BASE_PORT, MAX_PORT_EXCLUSIVE - 1, MAX_PORT_EXCLUSIVE},
        path \in {"", "/x"}}

\* the URL strings that follow a comma
SecondUrls ==
    { Raw("ws", "localhost", BASE_PORT, ""),
      Raw("ws", "127.0.0.1", BASE_PORT, "/x"),
      Raw("wss", "0.0.0.0", MAX_PORT_EXCLUSIVE, ""),
      Raw("ws", "example.com", MAX_PORT_EXCLUSIVE - 1, ""),
      Raw("http", "localhost", BASE_PORT, ""),
      Raw("", "", 0, "") }

\* configured values: unset, one URL, or two separated by a comma
ConfigValues ==
    {<< >>} \cup {<<first>> : first \in ConfigUrls}
            \cup {<<first, second>> : first \in ConfigUrls, second \in SecondUrls}

\* what the background answers when nothing is stored
BackgroundValues ==
    { << >>,
      <<ToRaw(DEFAULT_WS_URL)>>,
      <<Raw("ws", "0.0.0.0", MAX_PORT_EXCLUSIVE, "")>>,
      <<ToRaw(DEFAULT_WS_URL), Raw("ws", "example.com", MAX_PORT_EXCLUSIVE, "")>> }

\* a document about to load, with any configuration and no sticky endpoint
ResolveInit ==
    /\ DInit
    /\ SInit
    /\ MInit
    /\ AInit
    /\ XInit
    /\ storedWsUrl \in ConfigValues
    /\ backgroundWsUrl \in BackgroundValues
    /\ storedWsUrl # << >> => backgroundWsUrl = << >>
    /\ storedSticky = NullUrl
    /\ lastSetFailed = FALSE
    /\ wireError = NonObject("undefined")
    /\ thrown = NoError

\* the document loads
ResolveNext == \E getOk \in BOOLEAN : connectLoop(getOk)

ResolveSpec == ResolveInit /\ [][ResolveNext]_vars

\* the first ports of the ranges main() is started with: the lowest valid
\* port, the default, the highest whose range is valid, and two whose range
\* passes the largest port
BasePorts ==
    {1, DEFAULT_PORT, MAX_TCP_PORT - PORT_FALLBACK_COUNT + 1, MAX_TCP_PORT - 4, MAX_TCP_PORT}

\* the error codes of a failed listen()
ListenErrors == {"EADDRINUSE", "EACCES"}

\* main() is about to enter its loop
MainInit ==
    /\ DInit
    /\ SInit
    /\ EInit
    /\ basePort \in BasePorts
    /\ attempt = 0
    /\ currentPort = basePort
    /\ bridgePort = basePort
    /\ mainPhase = "loop"
    /\ tried = << >>
    /\ errors = << >>
    /\ AInit
    /\ XInit
    /\ wireError = NonObject("undefined")
    /\ thrown = NoError

MainNext ==
    \/ MainTry
    \/ StartListening
    \/ \E code \in ListenErrors : StartError(code)

MainSpec == MainInit /\ [][MainNext]_vars

\* argument values that are not finite numbers
NonNumbers == {NaN, Infinity, NegInfinity, ArgStr("5000"), ArgUndefined}
TimeoutInputs == {ArgNum(n) : n \in {0, 999, 1000, 1001, 120000, 120001}} \cup NonNumbers
ExtraWaitInputs == {ArgNum(n) : n \in {0 - 5, 0, 250, 10000, 10001}} \cup NonNumbers
JpegQualityInputs == {ArgNum(n) : n \in {0 - 20, 0, 80, 100, 999}} \cup NonNumbers
MaxAgeInputs == {ArgNum(n) : n \in {0, 1, 24, 87600, 87601}} \cup NonNumbers
UrlInputs == {ArgUndefined, ArgStr("not a url")}

\* a tool call with any of these arguments is about to be parsed
ParseInit ==
    /\ DInit
    /\ SInit
    /\ EInit
    /\ MInit
    /\ wireError = NonObject("undefined")
    /\ thrown = NoError
    /\ args \in [url : UrlInputs, timeoutMs : TimeoutInputs,
                  extraWaitMs : ExtraWaitInputs, jpegQuality : JpegQualityInputs,
                  maxAgeHours : MaxAgeInputs]
    /\ screenshotParams = NoParams
    /\ cleanupParams = NoParams
    /\ XInit

ParseNext == ParseScreenshot \/ ParseCleanup

ParseSpec == ParseInit /\ [][ParseNext]_vars

\* connections of a run of the round-robin list alone
NumRRConns == 3
RRKeys == 1..NumRRConns

\* the server is started and has accepted NumRRConns connections, none of
\* which has said hello yet
RRInit ==
    /\ wss = TRUE
    /\ sock = [k \in RRKeys |-> "OPEN"]
    /\ authed = [k \in RRKeys |-> FALSE]
    /\ errorSent = {}
    /\ closeCode = [k \in RRKeys |-> 0]
    /\ clients = {}
    /\ rrClientKeys = << >>
    /\ rrCursor = 0
    /\ pending = [id \in {} |-> 0]
    /\ pendingByClient = [k \in RRKeys |-> {}]
    /\ pingInterval = FALSE
    /\ timers = {}
    /\ retries = {}
    /\ calls = [id \in CallIds |-> Idle]
    /\ resolves = [id \in CallIds |-> 0]
    /\ rejects = [id \in CallIds |-> 0]
    /\ outcome = [id \in CallIds |-> NoOutcome]
    /\ cmdsSent = [id \in CallIds |-> 0]
    /\ disturbed = [id \in CallIds |-> FALSE]
    /\ SInit
    /\ EInit
    /\ MInit
    /\ AInit
    /\ XInit
    /\ wireError = NonObject("undefined")
    /\ thrown = NoError

\* hellos in any order, calls, their answers, and the loss of clients
RRNext ==
    \/ \E k \in RRKeys : Hello(k)
    \/ \E id \in CallIds : Call(id, 15000, FALSE)
    \/ \E k \in RRKeys, id \in CallIds, msg \in ResFrames : ResFrame(k, id, msg)
    \/ \E k \in RRKeys : CloseEvent(k)
    \/ \E k \in RRKeys : ErrorEvent(k)

RoundRobinSpec == RRInit /\ [][RRNext]_vars

\* values of the constructor argument retryJitterMaxMs
JitterMaxVals == {0, 1, RETRY_JITTER_MAX_MS}

\* an attempt with attempts left has failed and retryPending is about to
\* call retryDelay
RetryDelayInit ==
    /\ DInit
    /\ SInit
    /\ EInit
    /\ MInit
    /\ AInit
    /\ wireError = NonObject("undefined")
    /\ thrown = NoError
    /\ retryAttempt \in 1..(MAX_ATTEMPTS - 1)
    /\ retryJitterMaxMs \in JitterMaxVals
    /\ random \in 0..(RandomSteps - 1)
    /\ delayMs = -1
    /\ HInit
    /\ BInit

RetryDelaySpec == RetryDelayInit /\ [][RetryDelay]_vars

\* the intervals the constructor is given: the default and one longer than
\* the pong timeout
HeartbeatIntervals == {HEARTBEAT_INTERVAL_MS, PONG_TIMEOUT_MS + HbStep}

\* no client yet; the interval is not running, or it is running for another
\* client and fires within heartbeatIntervalMs
HeartbeatInit ==
    /\ DInit
    /\ SInit
    /\ EInit
    /\ MInit
    /\ AInit
    /\ RInit
    /\ wireError = NonObject("undefined")
    /\ thrown = NoError
    /\ hbNow = 0
    /\ heartbeatIntervalMs \in HeartbeatIntervals
    /\ nextTickAt \in {n \in 0..heartbeatIntervalMs : n % HbStep = 0}
    /\ pongTimeoutMs = PONG_TIMEOUT_MS
    /\ isClient = FALSE
    /\ lastPongAt = 0
    /\ pingsInFlight = 0
    /\ pongsInFlight = 0
    /\ missedPing = FALSE
    /\ pongTimeoutClosed = FALSE
    /\ BInit

HeartbeatNext ==
    \/ HbHello
    \/ HbTimePasses
    \/ HbTick
    \/ SupervisorOnPing
    \/ HbOnPong

HeartbeatSpec == HeartbeatInit /\ [][HeartbeatNext]_vars

\* the commands that take the lock
LockCmds == {"openUrl", "screenshot"}

LockNext ==
    \/ \E c \in LockCalls, cmd \in LockCmds : LockCall(c, cmd)
    \/ \E c \in LockCalls : LockEnter(c)
    \/ \E c \in LockCalls, throws \in BOOLEAN : LockLeave(c, throws)

CommandLockSpec == Init /\ [][LockNext]_vars

\* pending.reject(this.toBridgeError(msg?.error)) of the res branch
RejectWithBridgeError ==
    /\ thrown = NoError
    /\ thrown' = toBridgeError(wireError)
    /\ UNCHANGED <<wireError, dvars, svars, evars, mvars, avars, xvars>>

BridgeErrorSpec == WireInit /\ [][RejectWithBridgeError]_vars

(***************************************************************************)
(* Claims about the dispatcher.                                            *)
(***************************************************************************)
IsSettled(id) == calls[id] = Settled
IsLive(id) == calls[id].state = "live"

\* C1: for every call() the dispatcher invokes resolve or reject at most
\* once in total, whatever the interleaving of res frames, timers, client
\* loss, heartbeat timeouts, retries and stop().
C1_SettledAtMostOnce ==
    \A id \in CallIds : resolves[id] + rejects[id] <= 1

\* C1 witness: a call was resolved after it had been re-dispatched
C1_Witness ==
    \E id \in CallIds : resolves[id] = 1 /\ cmdsSent[id] >= 2

\* How far call id is through its attempts: attempt n awaiting a res is
\* 3n, its retry delay 3n+1, its wait for a client 3n+2.
Rank(id) ==
    IF id \in DOMAIN pending THEN 3 * pending[id].attempt
    ELSE IF \E r \in retries : r.id = id
    THEN LET r == CHOOSE r \in retries : r.id = id
         IN 3 * r.attempt + (IF r.phase = "delay" THEN 1 ELSE 2)
    ELSE 0

\* where call id stands: its pending record, its timers, its continuations
Position(id) ==
    << IF id \in DOMAIN pending THEN {pending[id]} ELSE {},
       {t \in timers : t.id = id},
       {r \in retries : r.id = id} >>

\* call id has a timer that will act on it: the per-call timer of its
\* pending record is armed (TimerFire is enabled and its callback passes its
\* checks), or a retryPending continuation is suspended in its delay
\* (RetryDelayElapsed is enabled) or in its client wait (RetryPoll or
\* RetryWaitExpired is enabled)
Armed(id) ==
    \/ id \in DOMAIN pending /\ TimerOf(id, pending[id]) \in timers
    \/ \E r \in retries : r.id = id

\* C2: every call() eventually resolves or rejects, given that timers fire:
\* an unsettled call always has a timer armed (its per-call timer, its retry
\* delay or its client wait), every step that moves it settles it or moves
\* it forward, and there are at most 3 * MAX_ATTEMPTS positions.
C2_EventuallySettled ==
    /\ [](\A id \in CallIds :
            IsLive(id) => Armed(id) /\ Rank(id) <= 3 * MAX_ATTEMPTS)
    /\ [][\A id \in CallIds :
            (IsLive(id) /\ Position(id)' # Position(id))
            => (IsSettled(id)' \/ Rank(id)' > Rank(id))]_vars

\* C2 witness: a call settled after a retry found no client
C2_Witness ==
    \E id \in CallIds :
        /\ IsSettled(id)
        /\ cmdsSent[id] >= 1
        /\ outcome[id] = [kind |-> "reject", value |-> connectionError]

\* C7: the number of cmd frames sent with one request id, over all clients,
\* never exceeds MAX_ATTEMPTS.
C7_RetryCap ==
    \A id \in CallIds : cmdsSent[id] <= MAX_ATTEMPTS

\* C7 witness: a request id was sent MAX_ATTEMPTS times
C7_Witness ==
    \E id \in CallIds : cmdsSent[id] = MAX_ATTEMPTS

ResMatches(k, id) == id \in DOMAIN pending /\ pending[id].clientKey = k

\* C8: a res frame acts on a call only if its id is in the pending table and
\* it comes from the client the request is attached to; every other res
\* frame that an authenticated connection delivers (unknown id, settled id,
\* request in a retry delay, request re-dispatched to another client) is
\* handled without changing any dispatcher state.
C8_StaleResDropped ==
    \A k \in Keys, id \in CallIds, msg \in ResFrames :
        (authed[k] /\ Receiving(k) /\ ~ResMatches(k, id))
        => onRes(DState, k, id, msg) = DState

\* C8 witness: a request was re-dispatched while a connection that does not
\* hold it is still authenticated and delivering frames
C8_Witness ==
    \E id \in DOMAIN pending, k \in Keys :
        /\ authed[k] /\ Receiving(k)
        /\ pending[id].clientKey # k
        /\ pending[id].attempt > 1

OpenClients == {k \in clients : sock[k] = "OPEN"}

\* C9: when the client holding a request closes or errors with attempts
\* left, the request is kept for a retry (not settled); when the retry finds
\* an OPEN client, the same id is sent to that client as the next attempt;
\* and an ok res of the holding client resolves the call with its result.
C9_Lost ==
    \A k \in Keys, id \in CallIds :
        ( /\ k \in clients
          /\ ResMatches(k, id)
          /\ pending[id].attempt < MAX_ATTEMPTS
          /\ CloseEvent(k) \/ ErrorEvent(k) )
        => /\ \E r \in retries' : r.id = id /\ r.attempt = pending[id].attempt
           /\ id \notin DOMAIN pending'
           /\ resolves'[id] = resolves[id] /\ rejects'[id] = rejects[id]

C9_Resent ==
    \A r \in retries :
        ( /\ OpenClients # {}
          /\ RetryDelayElapsed(r, FALSE) \/ RetryPoll(r, FALSE) )
        => /\ r.id \in DOMAIN pending'
           /\ pending'[r.id].clientKey \in OpenClients
           /\ pending'[r.id].attempt = r.attempt + 1
           /\ cmdsSent'[r.id] = cmdsSent[r.id] + 1

C9_Resolved ==
    \A k \in Keys, id \in CallIds, msg \in ResFrames :
        (msg.ok /\ ResMatches(k, id) /\ ResFrame(k, id, msg))
        => /\ resolves'[id] = resolves[id] + 1
           /\ outcome'[id] = [kind |-> "resolve", value |-> msg.result]

C9_RetriedOnOtherClient ==
    [][C9_Lost /\ C9_Resent /\ C9_Resolved]_vars

\* C9 witness: a call is resolved by its second cmd frame after the first
\* connection closed, the other client being OPEN
C9_Witness ==
    \E id \in CallIds :
        /\ resolves[id] = 1
        /\ cmdsSent[id] = 2
        /\ sock[1] = "CLOSED" /\ authed[1]
        /\ 2 \in OpenClients

\* C10: a call on which nothing but its own timer ever acted (no res, no
\* client loss, no send failure, an OPEN client at every selection) is sent
\* exactly MAX_ATTEMPTS times, every timer armed for it has the caller's
\* timeoutMs, and it rejects with the Timeout error.
C10_TimeoutAfterMaxAttempts ==
    /\ \A t \in timers :
          IsLive(t.id) => t.timeoutMs = calls[t.id].timeoutMs
    /\ \A id \in CallIds :
          (IsSettled(id) /\ ~disturbed[id])
          => /\ cmdsSent[id] = MAX_ATTEMPTS
             /\ outcome[id] = [kind |-> "reject", value |-> Err("Timeout")]

\* C10 witness: a call nothing but its timer acted on was rejected
C10_Witness ==
    \E id \in CallIds : IsSettled(id) /\ ~disturbed[id] /\ rejects[id] = 1

\* C11: on a res with ok=false from the holding client the request is
\* scheduled for a retry under the same id (to be sent as attempt + 1 once
\* the client selection is run again) if and only if error.retryable is the
\* boolean true and attempt < maxAttempts; otherwise the call rejects at
\* once with the error of the frame. A cmd frame goes out only for a first
\* attempt or for a scheduled retry, never for a settled call.
C11_FailedResHandled ==
    \A k \in Keys, id \in CallIds, msg \in ResFrames :
        (~msg.ok /\ authed[k] /\ Receiving(k) /\ ResMatches(k, id))
        => LET R == onRes(DState, k, id, msg)
               p == pending[id]
           IN IF msg.error.retryable = Bool(TRUE) /\ p.attempt < MAX_ATTEMPTS
              THEN /\ \E r \in R.retries :
                         r.id = id /\ r.attempt = p.attempt /\ r.phase = "delay"
                   /\ R.calls[id] = calls[id]
                   /\ R.rejects = rejects /\ R.resolves = resolves
                   /\ id \notin DOMAIN R.pending
              ELSE /\ R.rejects[id] = rejects[id] + 1
                   /\ R.outcome[id].kind = "reject"
                   /\ R.outcome[id].value.kind = "BridgeError"
                   /\ R.outcome[id].value.retryable
                         = (IF msg.error.retryable.t = "boolean"
                            THEN msg.error.retryable ELSE Undefined)
                   /\ R.calls[id] = Settled
                   /\ id \notin DOMAIN R.pending
                   /\ ~\E r \in R.retries : r.id = id
                   /\ ~\E tm \in R.timers : tm.id = id

C11_CmdOnlyForLiveAttempts ==
    \A id \in CallIds :
        cmdsSent'[id] # cmdsSent[id]
        => /\ cmdsSent'[id] = cmdsSent[id] + 1
           /\ ~IsSettled(id)
           /\ id \in DOMAIN pending'
           /\ pending'[id].attempt =
                 (IF \E r \in retries : r.id = id
                  THEN (CHOOSE r \in retries : r.id = id).attempt + 1
                  ELSE 1)

C11_RetryIffRetryable ==
    /\ [](C11_FailedResHandled)
    /\ [][C11_CmdOnlyForLiveAttempts]_vars

\* C11 witness: a first attempt was answered with a retryable error and the
\* request waits in its retry delay, no client having been lost
C11_Witness ==
    \E r \in retries :
        /\ r.phase = "delay" /\ r.attempt = 1
        /\ disturbed[r.id] /\ cmdsSent[r.id] = 1
        /\ \A k \in Keys : sock[k] # "none" => (sock[k] = "OPEN" /\ k \in clients)

\* C12: the rejection caused by a res with ok=false carries message, reason,
\* code and retryable as sent on the wire: a string message, reason or code
\* and a boolean retryable are kept, a field of another type is dropped, and
\* a message that is missing or not a string becomes 'Unknown error'.
C12_ErrorFieldsPreserved ==
    thrown # NoError
    => LET sent(field, type) ==
               IF wireError.t = "object" /\ wireError[field].t = type
               THEN wireError[field] ELSE Undefined
       IN /\ thrown.kind = "BridgeError"
          /\ thrown.message = (IF sent("message", "string") = Undefined
                               THEN <<"Unknown error">>
                               ELSE <<wireError.message.v>>)
          /\ thrown.reason = sent("reason", "string")
          /\ thrown.code = sent("code", "string")
          /\ thrown.retryable = sent("retryable", "boolean")

\* C12 witness: an error with a string reason, a numeric code, no message and
\* retryable false has been converted
C12_Witness ==
    /\ thrown # NoError
    /\ wireError.t = "object"
    /\ wireError.reason.t = "string"
    /\ wireError.code.t = "number"
    /\ wireError.message = Undefined
    /\ wireError.retryable = Bool(FALSE)

\* the text contains ws://<endpointHost>:<port>
NamesEndpoint(message) ==
    \E i \in 1..(Len(message) - 3) :
        /\ message[i] = "ws://"
        /\ message[i + 1] = endpointHost
        /\ message[i + 2] = ":"
        /\ message[i + 3] = port

\* C13: call() invoked when no authenticated client has an OPEN socket
\* rejects at once with an error whose message contains
\* ws://<endpointHost>:<port>, and creates no pending record, arms no timer,
\* starts no wait and sends no frame.
C13_NoClientRejectsAtOnce ==
    [][\A id \in CallIds :
          (calls[id] = Idle /\ calls'[id] # Idle /\ OpenClients = {})
          => /\ calls'[id] = Settled
             /\ rejects'[id] = 1 /\ resolves'[id] = 0
             /\ outcome'[id].kind = "reject"
             /\ NamesEndpoint(outcome'[id].value.message)
             /\ pending' = pending
             /\ pendingByClient' = pendingByClient
             /\ timers' = timers
             /\ retries' = retries
             /\ cmdsSent' = cmdsSent]_vars

\* C13 witness: a call made while the only connection had not said hello
\* was rejected without a frame
C13_Witness ==
    \E id \in CallIds :
        /\ calls[id] = Settled /\ rejects[id] = 1 /\ cmdsSent[id] = 0
        /\ outcome[id].value = connectionError
        /\ wss /\ sock[1] = "OPEN" /\ ~authed[1]
        /\ pending = << >> /\ timers = {} /\ retries = {}

\* C14: a connection whose first frame is not hello is sent the error frame
\* and closed, and is never entered into the client table, whatever frames
\* it sends afterwards before the close completes. The code leaves authed
\* false after the refusal, so a hello that arrives before the close event
\* runs the hello branch and enters the connection into this.clients.
C14_NonHelloNeverAClient ==
    \A k \in errorSent :
        /\ sock[k] = "CLOSING"
        /\ k \notin clients
        /\ \A i \in 1..Len(rrClientKeys) : rrClientKeys[i] # k

\* C15: when stop() is invoked, every call() not yet settled, whether it
\* awaits a res or waits in a retry delay or client wait, is rejected with
\* the "WS server stopped." error, and no cmd frame is sent for any of them
\* afterwards. stop() rejects through failAllPending, which walks
\* this.pending only: a call suspended in retryPending was deleted from
\* this.pending before the retry began, so stop() does not reach it.
C15_StopRejects ==
    Stop => \A id \in CallIds :
               IsLive(id) => /\ calls'[id] = Settled
                             /\ outcome'[id] = [kind |-> "reject",
                                                value |-> Err("ServerStopped")]

C15_NoCmdAfterStop ==
    \A id \in CallIds :
        (outcome[id].kind = "reject" /\ outcome[id].value = Err("ServerStopped"))
            => cmdsSent'[id] = cmdsSent[id]

C15_StopRejectsEveryCall ==
    [][C15_StopRejects]_vars /\ [][C15_NoCmdAfterStop]_vars

\* the longest run of consecutive call() invocations that C16 looks at
MaxConsecutive == 5

\* the clients picked by n consecutive call() invocations, none of which
\* fails: each one runs getConnectedClientKey() on the tables the previous
\* one left, and the sockets stay as they are
RECURSIVE consecutivePicks(_, _)
consecutivePicks(s, n) ==
    IF n = 0 THEN << >>
    ELSE LET g == getConnectedClientKey(s)
         IN <<g.key>> \o consecutivePicks(g.s, n - 1)

TimesPicked(picks, k) == Cardinality({i \in 1..Len(picks) : picks[i] = k})

\* C16: with a fixed set of K authenticated OPEN clients and no failures, N
\* consecutive call() invocations send floor(N/K) or ceil(N/K) cmd frames to
\* each client. Stated for every reachable state of the tables (stale and
\* closing entries of rrClientKeys included) for every N up to MaxConsecutive.
C16_RoundRobinFair ==
    \A n \in 1..MaxConsecutive :
        LET K == Cardinality(OpenClients)
            picks == consecutivePicks(DState, n)
            floor == n \div K
            ceil == IF n % K = 0 THEN floor ELSE floor + 1
        IN K > 0 =>
             /\ \A i \in 1..n : picks[i] \in OpenClients
             /\ \A k \in OpenClients : TimesPicked(picks, k) \in {floor, ceil}

\* two consecutive calls were sent to the two OPEN clients, one each, and
\* nothing has failed
C16_Witness ==
    /\ Cardinality(OpenClients) = 2
    /\ \A id \in CallIds :
          /\ id \in DOMAIN pending /\ pending[id].attempt = 1
          /\ cmdsSent[id] = 1 /\ ~disturbed[id]
    /\ pending[1].clientKey # pending[2].clientKey

\* the requests outstanding on client k
OutstandingOn(k) == {id \in DOMAIN pending : pending[id].clientKey = k}

\* what a heartbeat tick with these pong ages has done when it returns
C17_TickDropsTimedOut(sincePongMs) ==
    /\ \A k \in timedOut(DState, sincePongMs) :
          /\ sock'[k] = "CLOSING" /\ closeCode'[k] = 4002
          /\ k \notin clients'
          /\ \A i \in 1..Len(rrClientKeys') : rrClientKeys'[i] # k
          /\ \A id \in OutstandingOn(k) :
                /\ id \notin DOMAIN pending'
                /\ ~\E tm \in timers' : tm.id = id
                /\ IF pending[id].attempt < MAX_ATTEMPTS
                   THEN /\ \E r \in retries' : /\ r.id = id /\ r.phase = "delay"
                                                /\ r.attempt = pending[id].attempt
                        /\ calls'[id] = calls[id]
                        /\ rejects'[id] = rejects[id]
                   ELSE /\ calls'[id] = Settled
                        /\ rejects'[id] = rejects[id] + 1
                        /\ outcome'[id] = [kind |-> "reject",
                                           value |-> Err("HeartbeatTimeout")]
    /\ \A k \in OpenClients \ timedOut(DState, sincePongMs) :
          k \in clients' /\ sock'[k] = "OPEN" /\ closeCode'[k] = closeCode[k]

\* the pong ages a tick can read in this state: one for each OPEN client
PongAges ==
    {a \in [Keys -> SincePongVals] :
        \A k \in Keys : k \in OpenClients \/ a[k] = PONG_TIMEOUT_MS}

\* a tick pings the OPEN clients whose last pong is not older than
\* pongTimeoutMs and leaves them in the table
C17_OthersKept ==
    \A sincePongMs \in PongAges :
        \A k \in OpenClients \ timedOut(DState, sincePongMs) :
            k \in heartbeat(DState, sincePongMs).clients

\* C17: at a heartbeat tick at which now - lastPongAt > pongTimeoutMs holds
\* for a client with an OPEN socket, the socket is closed with code 4002
\* (pong_timeout), the client is removed from the client table, and each
\* request outstanding on it is handed to the retry policy: suspended for
\* another attempt, or rejected when its attempts are used up. A client
\* whose last pong is exactly pongTimeoutMs old is pinged instead. The
\* interval runs whenever the table holds a client. (A tick that finds a
\* timed-out client closes a socket, so only steps that change sock are
\* compared with HeartbeatTick.)
C17_PongTimeoutDropsClient ==
    /\ [](clients # {} => pingInterval)
    /\ [](C17_OthersKept)
    /\ [][sock' # sock =>
            \A sincePongMs \in PongAges :
                HeartbeatTick(sincePongMs) => C17_TickDropsTimedOut(sincePongMs)]_vars

\* a tick has closed a client with 4002 while a first attempt was outstanding
\* on it; the request waits in its retry delay and the other client is OPEN
C17_Witness ==
    \E k \in Keys, r \in retries :
        /\ closeCode[k] = 4002 /\ sock[k] = "CLOSING" /\ k \notin clients
        /\ r.phase = "delay" /\ r.attempt = 1 /\ cmdsSent[r.id] = 1
        /\ OpenClients # {}
        /\ \A j \in Keys : closeCode[j] = 4002 => j = k

\* C18: a retry that finds no authenticated OPEN client within
\* retryWaitForClientMs rejects the call with the NoClient error ("not
\* connected on ws://host:port"), not with the error that triggered the
\* retry: whenever a waiting retry ends while no client is OPEN, the call is
\* rejected, once, with connectionError(), and no cmd frame is sent.
C18_NoClientAfterWait ==
    [][\A r \in retries :
         (r.phase = "wait" /\ r \notin retries' /\ OpenClients = {})
         => /\ calls'[r.id] = Settled
            /\ rejects'[r.id] = rejects[r.id] + 1
            /\ resolves'[r.id] = resolves[r.id]
            /\ outcome'[r.id] = [kind |-> "reject", value |-> connectionError]
            /\ NamesEndpoint(outcome'[r.id].value.message)
            /\ cmdsSent' = cmdsSent
            /\ r.id \notin DOMAIN pending']_vars

\* a call whose first attempt timed out was rejected with the NoClient error
\* after a retry that found no client
C18_Witness ==
    \E id \in CallIds :
        /\ calls[id] = Settled /\ rejects[id] = 1 /\ cmdsSent[id] = 1
        /\ outcome[id].value = connectionError
        /\ OpenClients = {} /\ wss
        /\ ~\E r \in retries : r.id = id

\* C26: in every reachable dispatcher state, a request id is in the pending
\* table if and only if it is in the per-client index set of exactly the one
\* client named by its clientKey, that client is in the client table, and no
\* index set names an id absent from the pending table.
C26_IndexMatchesPending ==
    /\ \A id \in DOMAIN pending :
          /\ pending[id].clientKey \in clients
          /\ \A k \in Keys : id \in pendingByClient[k] <=> k = pending[id].clientKey
    /\ \A k \in Keys : pendingByClient[k] \subseteq DOMAIN pending

\* a call is pending on its second attempt while two clients are in the
\* table: its id is in the index set of the client it is attached to and in
\* no other
C26_Witness ==
    \E id \in CallIds :
        /\ id \in DOMAIN pending
        /\ pending[id].attempt = 2 /\ cmdsSent[id] = 2
        /\ Cardinality(clients) = 2
        /\ pendingByClient[pending[id].clientKey] = {id}
        /\ \A k \in clients \ {pending[id].clientKey} : pendingByClient[k] = {}

(***************************************************************************)
(* Claims about the supervisor.                                            *)
(***************************************************************************)
\* C3: at any instant at most one command is being executed by the
\* browser-operation bridge (one sendToBackground in flight), whatever the
\* sockets deliver and in whatever interleaving.
C3_OneInFlight == Cardinality(executing) <= 1

\* a command of one endpoint executes while a command of the other waits
C3_Witness ==
    \E item \in executing :
        /\ pendingQueue # << >>
        /\ Head(pendingQueue).socketKey[1] # item.socketKey[1]

\* C4: commands are handed to the browser-operation bridge in the order of
\* their admission to the global queue, across all sockets: a command that
\* begins was admitted after every command that began before it, and every
\* command admitted before it has left the bridge.
C4_FifoAcrossSockets ==
    [][\A B \in executing' \ executing :
          /\ B.seq > lastStarted
          /\ \A A \in executing' : A.seq >= B.seq]_vars

\* the second admitted command executes after the first has left the bridge,
\* and the third, admitted on the other endpoint, waits
C4_Witness ==
    \E B \in executing :
        /\ B.seq = 2
        /\ Sum(execCount, NumIds) = 2
        /\ Len(pendingQueue) = 1
        /\ pendingQueue[1].seq = 3
        /\ pendingQueue[1].socketKey[1] # B.socketKey[1]

\* the entries of recentlyCompletedIds that are not older than the TTL
UnexpiredCompleted ==
    LET young(entry) == now - entry.ts <= COMPLETED_ID_TTL_MS
    IN SeqSelect(recentlyCompletedIds, young)

\* the id is in activeRequestIds, or has an entry in recentlyCompletedIds that
\* is not older than the TTL and is among the COMPLETED_ID_MAX newest of these
HeldAsDuplicate(id) ==
    \/ id \in activeRequestIds
    \/ \E i \in 1..Len(UnexpiredCompleted) :
          /\ UnexpiredCompleted[i].id = id
          /\ Len(UnexpiredCompleted) - i < COMPLETED_ID_MAX

\* C5 as stated: for any command id the browser operation is invoked at most
\* once, over any sequence of cmd frames carrying that id.
C5_AtMostOncePerId == \A id \in Ids : execCount[id] <= 1

\* C5, amended: the browser operation is invoked at most once per admission
\* of an id, and an id is admitted only when it is not in activeRequestIds and
\* has no entry in recentlyCompletedIds that survives the pruning by age and
\* by size.
C5_AtMostOncePerAdmission ==
    /\ [](\A id \in Ids : execCount[id] <= admitCount[id])
    /\ [][\A id \in Ids :
             admitCount'[id] > admitCount[id]
             => /\ admitCount'[id] = admitCount[id] + 1
                /\ ~HeldAsDuplicate(id)]_vars

\* an id is executed a second time
C5_Witness == \E id \in Ids : execCount[id] = 2 /\ admitCount[id] = 2

\* the answer to a duplicate, on the socket of endpoint e
DuplicateFrame(e, id) ==
    [socketKey |-> <<e, socketKey[e]>>, id |-> id, ok |-> FALSE,
     reason |-> "duplicate_request_id", code |-> "DUPLICATE_REQUEST_ID",
     retryable |-> FALSE]

\* a cmd with this id, received now on the socket of endpoint e, is answered
\* as a duplicate and changes neither the queue nor the bridge
RejectedAsDuplicate(e, id) ==
    LET R == enqueueCommand(SState, e, id)
    IN /\ R.out = <<DuplicateFrame(e, id)>>
       /\ R.execCount = execCount
       /\ R.executing = executing
       /\ R.pendingQueue = pendingQueue
       /\ R.admitCount = admitCount

IsQueued(id) == \E i \in 1..Len(pendingQueue) : pendingQueue[i].id = id
IsExecuting(id) == \E item \in executing : item.id = id

\* C6 as stated: a cmd whose id is queued or executing, or completed less
\* than COMPLETED_ID_TTL_MS ago, is answered duplicate_request_id and no
\* browser operation is invoked for it.
C6_DuplicateRejected ==
    \A e \in Endpoints, id \in Ids :
        (/\ wsState[e] = "OPEN"
         /\ \/ IsQueued(id)
            \/ IsExecuting(id)
            \/ doneAt[id] >= 0 /\ now - doneAt[id] < COMPLETED_ID_TTL_MS)
        => RejectedAsDuplicate(e, id)

\* C6, amended: a cmd whose id is in activeRequestIds, or has an entry in
\* recentlyCompletedIds that is not older than COMPLETED_ID_TTL_MS and is
\* among the COMPLETED_ID_MAX newest such entries, is answered
\* duplicate_request_id and no browser operation is invoked for it.
C6_ActiveOrRecentRejected ==
    \A e \in Endpoints, id \in Ids :
        (/\ wsState[e] = "OPEN"
         /\ HeldAsDuplicate(id))
        => RejectedAsDuplicate(e, id)

\* a duplicate of the executing command has just been answered
C6_Witness ==
    \E e \in Endpoints, id \in Ids :
        /\ out = <<DuplicateFrame(e, id)>>
        /\ IsExecuting(id)
        /\ execCount[id] = 1

\* the answer to a cmd that finds the queue full, on the socket of endpoint e
OverflowFrame(e, id) ==
    [socketKey |-> <<e, socketKey[e]>>, id |-> id, ok |-> FALSE,
     reason |-> "queue_overflow", code |-> "QUEUE_OVERFLOW",
     retryable |-> TRUE]

\* C19: pendingQueue never holds more than MAX_GLOBAL_QUEUE_SIZE items, and
\* no cmd received in any reachable state makes it longer than that; a cmd
\* that is not a duplicate and arrives while the queue holds
\* MAX_GLOBAL_QUEUE_SIZE items is not enqueued (the queue, the active ids and
\* the bridge are as before) and is answered on its socket with reason
\* queue_overflow, code QUEUE_OVERFLOW, retryable = true.
C19_QueueBounded ==
    /\ Len(pendingQueue) <= MAX_GLOBAL_QUEUE_SIZE
    /\ \A e \in Endpoints, id \in Ids :
          wsState[e] = "OPEN" =>
            LET R == enqueueCommand(SState, e, id)
            IN /\ Len(R.pendingQueue) <= MAX_GLOBAL_QUEUE_SIZE
               /\ (Len(pendingQueue) = MAX_GLOBAL_QUEUE_SIZE /\ ~HeldAsDuplicate(id))
                  => /\ R.out = <<OverflowFrame(e, id)>>
                     /\ R.pendingQueue = pendingQueue
                     /\ R.activeRequestIds = activeRequestIds
                     /\ R.pendingBySocketKey = pendingBySocketKey
                     /\ R.admitCount = admitCount
                     /\ R.execCount = execCount
                     /\ R.executing = executing

\* a cmd has just been answered with queue_overflow: the queue is full and
\* the id is neither queued nor active
C19_Witness ==
    \E e \in Endpoints, id \in Ids :
        /\ out = <<OverflowFrame(e, id)>>
        /\ Len(pendingQueue) = MAX_GLOBAL_QUEUE_SIZE
        /\ ~IsQueued(id) /\ id \notin activeRequestIds

\* the answer to a command that waited in the queue past its deadline
TimeoutFrame(item) ==
    [socketKey |-> item.socketKey, id |-> item.id, ok |-> FALSE,
     reason |-> "queue_wait_timeout", code |-> "QUEUE_WAIT_TIMEOUT",
     retryable |-> TRUE]

\* the socket the item arrived on is still registered and OPEN
OwnerOpen(item) ==
    item.socketKey \in socketStates /\ wsState[item.socketKey[1]] = "OPEN"

\* this step is a run of processQueue that takes the item, whose deadline has
\* passed, from the queue (removal by finalizeSocket changes wsState)
DequeuedLate(item) ==
    /\ wsState' = wsState
    /\ now > item.deadlineAt
    /\ \A j \in 1..Len(pendingQueue') : pendingQueue'[j] # item

Answered(item) == \E j \in 1..Len(out') : out'[j] = TimeoutFrame(item)

\* C20 as stated: an item dequeued after its deadline is never passed to the
\* browser-operation bridge; it is answered on its owning socket with reason
\* queue_wait_timeout, code QUEUE_WAIT_TIMEOUT, retryable = true, and its id
\* is marked completed.
C20_LateItemAnswered ==
    [][\A i \in 1..Len(pendingQueue) :
         LET item == pendingQueue[i]
         IN DequeuedLate(item)
            => /\ item \notin executing'
               /\ execCount'[item.id] = execCount[item.id]
               /\ Answered(item)
               /\ doneAt'[item.id] = now
               /\ item.id \notin activeRequestIds']_vars

\* C20, amended: an item dequeued after its deadline is never passed to the
\* browser-operation bridge and its id is marked completed; it is answered
\* with queue_wait_timeout / QUEUE_WAIT_TIMEOUT / retryable = true exactly
\* when its owning socket is still OPEN at that moment. If the socket is
\* closing, the item is dropped without any frame.
C20_LateItemNeverExecuted ==
    [][\A i \in 1..Len(pendingQueue) :
         LET item == pendingQueue[i]
         IN DequeuedLate(item)
            => /\ item \notin executing'
               /\ execCount'[item.id] = execCount[item.id]
               /\ Answered(item) <=> OwnerOpen(item)
               /\ doneAt'[item.id] = now
               /\ item.id \notin activeRequestIds']_vars

\* a command has just been answered with queue_wait_timeout on its OPEN
\* socket: it was admitted once, never executed, and is marked completed
C20_Witness ==
    \E e \in Endpoints, id \in Ids :
        /\ \E j \in 1..Len(out) :
              out[j] = [socketKey |-> <<e, socketKey[e]>>, id |-> id, ok |-> FALSE,
                        reason |-> "queue_wait_timeout",
                        code |-> "QUEUE_WAIT_TIMEOUT", retryable |-> TRUE]
        /\ wsState[e] = "OPEN"
        /\ admitCount[id] = 1 /\ execCount[id] = 0
        /\ doneAt[id] = now /\ id \notin activeRequestIds

\* the items accepted on a socket session that are queued or executing
QueuedOn(key) ==
    {pendingQueue[i] : i \in {j \in 1..Len(pendingQueue) :
                                 pendingQueue[j].socketKey = key}}
ExecutingOn(key) == {item \in executing : item.socketKey = key}

\* the queue holds no item of a session that has finalized
C21_QueueLive ==
    \A i \in 1..Len(pendingQueue) : pendingQueue[i].socketKey \in socketStates

\* the close of endpoint e's socket takes the session's items from the queue
\* and marks every id the session owned completed
C21_Finalized ==
    \A e \in Endpoints :
        (wsState'[e] = "CLOSED" /\ wsState[e] # "CLOSED") =>
           LET key == <<e, socketKey[e]>>
           IN /\ key \notin socketStates'
              /\ \A j \in 1..Len(pendingQueue') : pendingQueue'[j].socketKey # key
              /\ \A item \in QueuedOn(key) \cup ExecutingOn(key) :
                    /\ doneAt'[item.id] = now
                    /\ item.id \notin activeRequestIds'
              /\ executing' = executing /\ execCount' = execCount

\* an item starts executing only while its session is registered and OPEN
C21_StartedLive ==
    \A item \in executing' \ executing :
        /\ item.socketKey \in socketStates'
        /\ wsState'[item.socketKey[1]] = "OPEN"

\* C21: when a socket session finalizes (close), every queued item accepted
\* on that session is removed from pendingQueue and every id it owned (queued
\* or executing) is marked completed, so that afterwards the queue contains
\* no item whose owning socket session has finalized and no such item is
\* ever executed.
C21_FinalizePurgesSession ==
    /\ [](C21_QueueLive)
    /\ [][C21_Finalized]_vars
    /\ [][C21_StartedLive]_vars

\* a session has just finalized while one of its commands was executing and
\* another was queued: both ids are marked completed and the queue holds
\* only a command of the other endpoint
C21_Witness ==
    \E e \in Endpoints, item \in executing, id \in Ids :
        /\ wsState[e] = "CLOSED"
        /\ item.socketKey = <<e, socketKey[e]>>
        /\ doneAt[item.id] = now /\ item.id \notin activeRequestIds
        /\ id # item.id
        /\ admitCount[id] = 1 /\ execCount[id] = 0 /\ doneAt[id] = now
        /\ id \notin activeRequestIds
        /\ Len(pendingQueue) = 1 /\ pendingQueue[1].socketKey[1] # e


\* C22: the result or error envelope of an executed command is sent only on
\* the socket session on which its cmd frame was accepted, never on a later
\* session of the same endpoint nor on another endpoint's socket.  Stated on
\* the step in which the browser-operation bridge returns for an executing
\* item: every frame written for the item's id carries the item's own
\* socketKey.  processQueue holds the endpoint's state object across the
\* await and sends on state.ws, which connectEndpoint has replaced if the
\* endpoint reconnected meanwhile.
C22_SentOnOwnSession ==
    [][\A item \in executing \ executing' :
          \A j \in 1..Len(out') :
              out'[j].id = item.id => out'[j].socketKey = item.socketKey]_vars


\* the socket of endpoint e is CONNECTING or OPEN
SocketLive(ws, e) == ws[e] \in {"CONNECTING", "OPEN"}

\* a connect request for an endpoint whose socket is CONNECTING or OPEN
\* creates no socket and changes nothing
C23_RequestIgnoredWhileLive ==
    \A e \in Endpoints : SocketLive(wsState, e) => connectEndpoint(SState, e) = SState

\* a socket is created for an endpoint (its socketKey changes) only while the
\* endpoint's previous socket is neither CONNECTING nor OPEN; a socket only
\* becomes CONNECTING by being created, and OPEN from CONNECTING, so the
\* replaced socket never counts again
C23_CreatedOnlyWhenNoneLive ==
    \A e \in Endpoints :
        /\ socketKey'[e] # socketKey[e] =>
              /\ ~SocketLive(wsState, e)
              /\ socketKey'[e] = socketKey[e] + 1
              /\ wsState'[e] = "CONNECTING"
        /\ (socketKey'[e] = socketKey[e] /\ wsState'[e] # wsState[e]) =>
              /\ wsState'[e] # "CONNECTING"
              /\ wsState'[e] = "OPEN" => wsState[e] = "CONNECTING"

\* C23: each endpoint has at most one socket that is CONNECTING or OPEN at
\* any time, across reconnect timers, open-timeouts, error/close events and
\* repeated connect requests.  The sockets of an endpoint are numbered by
\* socketKey[e]; wsState[e] is the readyState of the newest one.
C23_OneLiveSocketPerEndpoint ==
    /\ [](C23_RequestIgnoredWhileLive)
    /\ [][C23_CreatedOnlyWhenNoneLive]_vars

\* an endpoint is on its second socket, which is open, after the first closed
\* and the reconnect timer fired; the other endpoint is still connecting
C23_Witness ==
    \E e \in Endpoints :
        /\ socketKey[e] = 2
        /\ wsState[e] = "OPEN"
        /\ ~reconnectTimer[e]
        /\ \E f \in Endpoints \ {e} : wsState[f] = "CONNECTING" /\ socketKey[f] = 1


\* the delays the claim lists, by the number of the reconnect since the
\* endpoint was last OPEN
ExpectedDelays == <<500, 1000, 2000, 4000, 8000, 10000, 10000>>
DelayOfReconnect(n) == IF n <= Len(ExpectedDelays) THEN ExpectedDelays[n] ELSE 10000

\* backoffMs lies in [500, 10000] and is the delay of the next reconnect
C24_BackoffInRange ==
    \A e \in Endpoints :
        /\ backoffMs[e] >= 500 /\ backoffMs[e] <= 10000
        /\ backoffMs[e] = DelayOfReconnect(consecutiveFailures[e] + 1)

\* the armed reconnect timer of an endpoint that closed n times since it was
\* last OPEN (or since the start) has the n-th delay of the list
C24_DelayOfArmedTimer ==
    \A e \in Endpoints :
        reconnectTimer[e] =>
            /\ consecutiveFailures[e] >= 1
            /\ reconnectDelay[e] = DelayOfReconnect(consecutiveFailures[e])

\* a step that arms the reconnect timer uses backoffMs as the delay and
\* doubles backoffMs up to the cap; a step that opens the socket resets
\* backoffMs
C24_Step ==
    \A e \in Endpoints :
        /\ (~reconnectTimer[e] /\ reconnectTimer'[e]) =>
              /\ reconnectDelay'[e] = backoffMs[e]
              /\ backoffMs'[e] = Min(10000, 2 * backoffMs[e])
              /\ consecutiveFailures'[e] = consecutiveFailures[e] + 1
        /\ (wsState[e] # "OPEN" /\ wsState'[e] = "OPEN") =>
              /\ backoffMs'[e] = 500
              /\ consecutiveFailures'[e] = 0

ResolvedAtStartup ==
    LET cfg == loadConfig(storedWsUrl, backgroundWsUrl)
    IN resolveEndpoints(cfg.wsUrl, cfg.hasExplicitStorageWsUrl)

C25_StoredIsLastOpened ==
    (stickyWrites = << >> /\ ~lastSetFailed /\ lastOpened # NullUrl) =>
        storedSticky = lastOpened

\* the list computed by connectLoop begins with the stored endpoint if the
\* read succeeded and the endpoint is among the resolved ones; otherwise the
\* list is the resolved one
C25_StartupStep ==
    (configuredEndpoints = << >> /\ configuredEndpoints' # << >>) =>
        LET resolved == ResolvedAtStartup
            readOk == stickyEndpoint' = storedSticky
        IN /\ stickyEndpoint' \in {storedSticky, NullUrl}
           /\ IF readOk /\ storedSticky # NullUrl /\ includes(resolved, storedSticky)
              THEN /\ Head(configuredEndpoints') = storedSticky
                   /\ Tail(configuredEndpoints') = without(resolved, storedSticky)
              ELSE configuredEndpoints' = resolved

EndpointOpen(e) ==
    \/ wsState[e] = "OPEN"
    \/ wsState[e] = "CLOSING" /\ ~connecting[e]

\* the OPEN endpoints in endpoint order
OpenEndpoints ==
    LET F[i \in 0..NumEndpoints] ==
        IF i = 0 THEN << >>
        ELSE IF EndpointOpen(i) THEN Append(F[i - 1], configuredEndpoints[i])
             ELSE F[i - 1]
    IN F[NumEndpoints]

\* connected and connectedEndpoints of the published status
StatusListsOpenEndpoints ==
    /\ currentStatus.connected = (\E e \in Endpoints : EndpointOpen(e))
    /\ currentStatus.connectedEndpoints = OpenEndpoints

\* C27 as claimed: after every endpoint state change the published status
\* has connected = (some endpoint is OPEN), connectedEndpoints = the OPEN
\* endpoints in endpoint order, and wsUrl = the first OPEN endpoint if any,
\* else the head of the configured list, else the default URL.
C27_WsUrlIsFirstOpen ==
    /\ StatusListsOpenEndpoints
    /\ currentStatus.wsUrl =
          IF OpenEndpoints # << >> THEN <<OpenEndpoints[1]>>
          ELSE IF configuredEndpoints # << >> THEN <<configuredEndpoints[1]>>
          ELSE <<DEFAULT_WS_URL>>

\* C27, amended: wsUrl is the list of all OPEN endpoints in endpoint order,
\* joined by commas, if any endpoint is OPEN (the first OPEN endpoint when
\* it is the only one), else the head of the configured list, else the
\* default URL; connected and connectedEndpoints are as claimed.
C27_WsUrlIsAllOpen ==
    /\ StatusListsOpenEndpoints
    /\ currentStatus.wsUrl =
          IF OpenEndpoints # << >> THEN OpenEndpoints
          ELSE IF configuredEndpoints # << >> THEN <<configuredEndpoints[1]>>
          ELSE <<DEFAULT_WS_URL>>

\* both endpoints are OPEN, the first in its closing handshake, and the
\* published wsUrl names both
C27_Witness ==
    /\ wsState[1] = "CLOSING"
    /\ wsState[2] = "OPEN"
    /\ currentStatus.connected
    /\ currentStatus.connectedEndpoints = <<configuredEndpoints[1], configuredEndpoints[2]>>
    /\ currentStatus.wsUrl = <<DEFAULT_WS_URL, Endpoint("ws", "127.0.0.1", BASE_PORT)>>


\* the values of a list
Elements(list) == {list[i] : i \in 1..Len(list)}

\* the seeds of the configuration and, for each, its host equivalents:
\* 0.0.0.0 stands for localhost, 127.0.0.1 and wsl.localhost; localhost and
\* 127.0.0.1 stand for each other and for wsl.localhost
SeedsAndEquivalents ==
    LET cfg == loadConfig(storedWsUrl, backgroundWsUrl)
        seeds == Elements(parseSeedEndpoints(cfg.wsUrl, cfg.hasExplicitStorageWsUrl))
        hosts(u) == IF u.host = "0.0.0.0" THEN {"localhost", "127.0.0.1", "wsl.localhost"}
                    ELSE IF u.host \in {"localhost", "127.0.0.1"}
                    THEN {"localhost", "127.0.0.1", "wsl.localhost"}
                    ELSE {}
    IN seeds \cup UNION {{Endpoint(u.protocol, h, u.port) : h \in hosts(u)} : u \in seeds}

\* the default sweep
DefaultSweep ==
    {Endpoint("ws", h, p) : h \in {"localhost", "127.0.0.1", "wsl.localhost"},
                            p \in 8766..8775}

\* C28: for every configured URL value, the resolved candidate list contains
\* no duplicates, contains all 30 default-sweep endpoints (ports 8766..8775
\* crossed with localhost, 127.0.0.1, wsl.localhost), and places every
\* user-configured seed and its host equivalents before every default
\* endpoint that is not itself a seed or equivalent.  Stated of the list
\* connectLoop has assigned to configuredEndpoints, no sticky endpoint stored.
C28_ResolvedList ==
    configuredEndpoints # << >> =>
        LET list == configuredEndpoints
            n == Len(list)
        IN /\ \A i \in 1..n : \A j \in 1..n : list[i] = list[j] => i = j
           /\ Cardinality(DefaultSweep) = 30
           /\ DefaultSweep \subseteq Elements(list)
           /\ SeedsAndEquivalents \subseteq Elements(list)
           /\ Elements(list) = SeedsAndEquivalents \cup DefaultSweep
           /\ \A i \in 1..n : \A j \in 1..n :
                 (list[i] \in SeedsAndEquivalents /\ list[j] \notin SeedsAndEquivalents)
                     => i < j

\* the stored value names the wildcard address on a port of the sweep, with
\* a path, and a secure URL outside the sweep: the three equivalents of the
\* first are in the sweep and are listed ahead of it, those of the second are
\* not, and the list has 35 entries
C28_Witness ==
    /\ storedWsUrl = <<Raw("ws", "0.0.0.0", MAX_PORT_EXCLUSIVE - 1, "/x"),
                       Raw("wss", "0.0.0.0", MAX_PORT_EXCLUSIVE, "")>>
    /\ Len(configuredEndpoints) = 35
    /\ configuredEndpoints[1] = Endpoint("ws", "0.0.0.0", 8775)
    /\ configuredEndpoints[2] = Endpoint("ws", "localhost", 8775)
    /\ configuredEndpoints[5] = Endpoint("wss", "0.0.0.0", 8776)
    /\ configuredEndpoints[9] = DEFAULT_WS_URL


\* start() is called with portRangeStart, portRangeStart + 1, ... in that
\* order, at most ten times, and again only after a start() that failed
\* with EADDRINUSE
C29_TriedInOrder ==
    /\ Len(tried) <= 10
    /\ \A i \in 1..Len(tried) : tried[i] = basePort + i - 1
    /\ Len(tried) = Len(errors) + (IF mainPhase \in {"awaiting", "serving"} THEN 1 ELSE 0)
    /\ \A i \in 1..Len(errors) : i < Len(tried) => errors[i] = "EADDRINUSE"

\* a start() that failed leaves the bridge stopped
C29_StoppedAfterFailure ==
    mainPhase \in {"loop", "failed"} => ~wss

\* the server serves on the first port that binds: every port before it was
\* in use
C29_ServesFirstBound ==
    mainPhase = "serving" =>
        /\ wss
        /\ bridgePort = basePort + Len(errors)
        /\ bridgePort = tried[Len(tried)]
        /\ \A i \in 1..Len(errors) : errors[i] = "EADDRINUSE"

\* startup fails if all ten ports are in use; it fails otherwise only on an
\* error that is not EADDRINUSE
C29_FailsWhenAllInUse ==
    /\ (Len(errors) = 10 /\ \A i \in 1..10 : errors[i] = "EADDRINUSE")
          => mainPhase = "failed"
    /\ mainPhase = "failed" =>
          \/ Len(errors) = 10 /\ \A i \in 1..10 : errors[i] = "EADDRINUSE"
          \/ errors[Len(errors)] # "EADDRINUSE"

\* C29: the entry point tries ports portRangeStart, portRangeStart + 1, ...,
\* portRangeStart + 9 in that order; each start() that fails with EADDRINUSE
\* rejects and leaves the bridge stopped so the next start() can run; the
\* server serves on the first port that binds and startup fails if all 10
\* are in use.
C29_PortFallback ==
    /\ C29_TriedInOrder
    /\ C29_StoppedAfterFailure
    /\ C29_ServesFirstBound
    /\ C29_FailsWhenAllInUse

\* the nine ports from the default on were in use and the server listens on
\* the tenth
C29_Witness ==
    /\ basePort = 8766
    /\ mainPhase = "serving"
    /\ wss
    /\ bridgePort = 8775
    /\ Len(errors) = 9
    /\ tried = <<8766, 8767, 8768, 8769, 8770, 8771, 8772, 8773, 8774, 8775>>


\* each number a parser returned is within the range of its field
C30_InRange ==
    /\ screenshotParams.status = "returned" =>
        /\ screenshotParams.timeoutMs \in 1000..120000
        /\ screenshotParams.extraWaitMs \in 0..10000
        /\ screenshotParams.jpegQuality \in 0..100
    /\ cleanupParams.status = "returned" =>
        cleanupParams.maxAgeHours \in 1..87600

\* a finite number within the range of its field is returned unchanged
C30_KeepsValueInRange ==
    /\ screenshotParams.status = "returned" =>
        /\ (isFinite(args.timeoutMs) /\ args.timeoutMs.type = "number"
                /\ args.timeoutMs.n \in 1000..120000)
              => screenshotParams.timeoutMs = args.timeoutMs.n
        /\ (isFinite(args.extraWaitMs) /\ args.extraWaitMs.type = "number"
                /\ args.extraWaitMs.n \in 0..10000)
              => screenshotParams.extraWaitMs = args.extraWaitMs.n
        /\ (isFinite(args.jpegQuality) /\ args.jpegQuality.type = "number"
                /\ args.jpegQuality.n \in 0..100)
              => screenshotParams.jpegQuality = args.jpegQuality.n
    /\ (cleanupParams.status = "returned" /\ isFinite(args.maxAgeHours)
            /\ args.maxAgeHours.type = "number" /\ args.maxAgeHours.n \in 1..87600)
          => cleanupParams.maxAgeHours = args.maxAgeHours.n

\* clamping a returned number again gives the same number
C30_Idempotent ==
    /\ screenshotParams.status = "returned" =>
        /\ clamp(screenshotParams.timeoutMs, 1000, MAX_TIMEOUT_MS) = screenshotParams.timeoutMs
        /\ clamp(screenshotParams.extraWaitMs, 0, MAX_EXTRA_WAIT_MS) = screenshotParams.extraWaitMs
        /\ clamp(screenshotParams.jpegQuality, 0, 100) = screenshotParams.jpegQuality
    /\ cleanupParams.status = "returned" =>
        clamp(cleanupParams.maxAgeHours, 1, MAX_CLEANUP_HOURS) = cleanupParams.maxAgeHours

\* the finite numbers among these values
Finite(inputs) == {v \in inputs : v.type = "number" /\ isFinite(v)}

\* a finite input no larger (no smaller) than the one parsed gives a result
\* no larger (no smaller) than the one returned
Monotone(inputs, given, fallback, min, max, returned) ==
    (given \in Finite(inputs)) =>
        \A v \in Finite(inputs) :
            /\ v.n <= given.n => clamp(asNum(v, fallback), min, max) <= returned
            /\ v.n >= given.n => clamp(asNum(v, fallback), min, max) >= returned

C30_Monotone ==
    /\ screenshotParams.status = "returned" =>
        /\ Monotone(TimeoutInputs, args.timeoutMs, 15000, 1000, MAX_TIMEOUT_MS,
                    screenshotParams.timeoutMs)
        /\ Monotone(ExtraWaitInputs, args.extraWaitMs, 250, 0, MAX_EXTRA_WAIT_MS,
                    screenshotParams.extraWaitMs)
        /\ Monotone(JpegQualityInputs, args.jpegQuality, 80, 0, 100,
                    screenshotParams.jpegQuality)
    /\ cleanupParams.status = "returned" =>
        Monotone(MaxAgeInputs, args.maxAgeHours, 24, 1, MAX_CLEANUP_HOURS,
                 cleanupParams.maxAgeHours)

\* a value that is not a finite number gives the default of its field
C30_DefaultForNonNumber ==
    /\ screenshotParams.status = "returned" =>
        /\ args.timeoutMs \in NonNumbers => screenshotParams.timeoutMs = 15000
        /\ args.extraWaitMs \in NonNumbers => screenshotParams.extraWaitMs = 250
        /\ args.jpegQuality \in NonNumbers => screenshotParams.jpegQuality = 80
    /\ (cleanupParams.status = "returned" /\ args.maxAgeHours \in NonNumbers)
          => cleanupParams.maxAgeHours = 24

\* C30: for every numeric input the argument parsers return timeoutMs in
\* [1000, 120000], extraWaitMs in [0, 10000], jpegQuality in [0, 100] and
\* maxAgeHours in [1, 87600]; the clamp is idempotent and monotone, and a
\* non-numeric or non-finite input yields the documented default
\* (15000, 250, 80, 24).
C30_ParsedNumbers ==
    /\ C30_InRange
    /\ C30_KeepsValueInRange
    /\ C30_Idempotent
    /\ C30_Monotone
    /\ C30_DefaultForNonNumber

\* both parsers returned: a timeout and a quality above their ranges, a
\* negative wait, and an age that is not a number
C30_Witness ==
    /\ args.timeoutMs = ArgNum(120001)
    /\ args.extraWaitMs = ArgNum(0 - 5)
    /\ args.jpegQuality = ArgNum(999)
    /\ args.maxAgeHours = NaN
    /\ screenshotParams.status = "returned"
    /\ screenshotParams.timeoutMs = 120000
    /\ screenshotParams.extraWaitMs = 0
    /\ screenshotParams.jpegQuality = 100
    /\ cleanupParams.status = "returned"
    /\ cleanupParams.maxAgeHours = 24


\* a cmd with this id, received now on the OPEN socket of endpoint e while the
\* queue has room, is enqueued
AdmittedIfResent(e, id) ==
    (wsState[e] = "OPEN" /\ Len(pendingQueue) < MAX_GLOBAL_QUEUE_SIZE)
    => enqueueCommand(SState, e, id).admitCount[id] = admitCount[id] + 1

\* the id of a queue_wait_timeout answer just written is admitted when the
\* cmd comes again
C31_AfterTimeout ==
    \A j \in 1..Len(out) :
        out[j].reason = "queue_wait_timeout"
        => \A e \in Endpoints : AdmittedIfResent(e, out[j].id)

\* the ids queued or executing on a session that closes are not held as
\* duplicates afterwards
C31_AfterClose ==
    \A e \in Endpoints :
        (wsState'[e] = "CLOSED" /\ wsState[e] # "CLOSED") =>
            \A item \in QueuedOn(<<e, socketKey[e]>>) \cup ExecutingOn(<<e, socketKey[e]>>) :
                ~(HeldAsDuplicate(item.id))'

\* C31: a request that the dispatcher re-sends under the same id after a
\* retryable supervisor-side failure (a queue_wait_timeout answer, or the
\* close of the socket session on which it was queued or executing) is
\* admitted to the queue by the supervisor that receives the re-sent cmd,
\* even when that is the same supervisor process and the re-send arrives
\* within COMPLETED_ID_TTL_MS.
C31_ResentAdmitted ==
    /\ [](C31_AfterTimeout)
    /\ [][C31_AfterClose]_vars


\* the clients in the order in which getConnectedClientKey() visits them
Rotation(keys, cursor) ==
    [i \in 1..Len(keys) |-> keys[((cursor + i - 1) % Len(keys)) + 1]]

\* the first client of this order whose socket is OPEN after the step, 0 if
\* none
FirstOpen(order) ==
    LET hits == {i \in 1..Len(order) : sock'[order[i]] = "OPEN"}
    IN IF hits = {} THEN 0
       ELSE order[CHOOSE i \in hits : \A j \in hits : i <= j]

\* this step removes client k, and only k, from the client table
Removes(k) == k \in clients /\ clients' = clients \ {k}

\* the remaining clients in the order before the removal
RemainingOrder(k) == SeqFilterOut(Rotation(rrClientKeys, rrCursor), k)

\* the position of k in the list, counted from 0 as the cursor is
PositionInList(k) == (CHOOSE i \in 1..Len(rrClientKeys) : rrClientKeys[i] = k) - 1

\* C32 as stated: removing a client from the round-robin list does not
\* change which of the remaining clients is selected next: the next
\* selection after a removal is the client that would have been selected
\* next before it (or its successor when that client is the one removed), so
\* no remaining client is skipped or served twice in a row because of a
\* removal.
C32_NextSelectionKept ==
    [][\A k \in RRKeys :
          Removes(k) =>
            /\ (getConnectedClientKey(DState).key)' = FirstOpen(RemainingOrder(k))
            /\ Rotation(rrClientKeys', rrCursor') = RemainingOrder(k)]_vars

\* C32, amended: removing a client keeps the cursor index, or sets it to 0
\* when it is past the end of the shortened list.  When the removed client
\* stood at or after the cursor in the list, the order in which the
\* remaining clients are selected is unchanged.  When it stood before the
\* cursor, the remaining client that was next is passed over: selection
\* starts with its successor and reaches it last.
C32_OrderKeptUnlessBeforeCursor ==
    [][\A k \in RRKeys :
          Removes(k) =>
            LET R == RemainingOrder(k)
                expected == IF PositionInList(k) >= rrCursor \/ R = << >> THEN R
                            ELSE Tail(R) \o <<Head(R)>>
            IN /\ rrCursor' = IF rrCursor >= Len(rrClientKeys') THEN 0 ELSE rrCursor
               /\ Rotation(rrClientKeys', rrCursor') = expected
               /\ (getConnectedClientKey(DState).key)' = FirstOpen(expected)]_vars

\* client 1, the first of three in the list, has been removed after the one
\* cmd of the run was sent to it: the cursor stayed at 1, so that client 3 is
\* next and client 2 is passed over
C32_Witness ==
    /\ rrClientKeys = <<2, 3>>
    /\ rrCursor = 1
    /\ clients = {2, 3}
    /\ sock = [k \in RRKeys |-> IF k = 1 THEN "CLOSED" ELSE "OPEN"]
    /\ cmdsSent = [id \in CallIds |-> IF id = 1 THEN 1 ELSE 0]
    /\ \E r \in retries : r.id = 1
    /\ getConnectedClientKey(DState).key = 3


\* C33 as stated: the delay the dispatcher waits before dispatching attempt
\* n (n = 2, 3) is min(2000, 150 * 2^(n-1)) ms plus a jitter in
\* [0, retryJitterMaxMs).
C33_DelayByNextAttempt ==
    delayMs >= 0 =>
        LET n == retryAttempt + 1
            jitter == delayMs - Min(2000, 150 * 2 ^ (n - 1))
        IN 0 <= jitter /\ jitter < retryJitterMaxMs

\* C33, amended: the delay the dispatcher waits before dispatching attempt
\* n (n = 2, 3) is min(2000, 150 * 2^(n-2)) ms, that is 150 ms before
\* attempt 2 and 300 ms before attempt 3, plus a whole number of ms of
\* jitter that is 0 when retryJitterMaxMs is 0 and in [0, retryJitterMaxMs)
\* otherwise.
C33_DelayByFailedAttempt ==
    delayMs >= 0 =>
        LET n == retryAttempt + 1
            jitter == delayMs - Min(2000, 150 * 2 ^ (n - 2))
        IN /\ n \in {2, 3}
           /\ delayMs - jitter = IF n = 2 THEN 150 ELSE 300
           /\ 0 <= jitter
           /\ IF retryJitterMaxMs = 0 THEN jitter = 0 ELSE jitter < retryJitterMaxMs

\* the delay before attempt 3 with the default jitter and the largest random
\* number: 300 ms and 95 ms of jitter
C33_Witness ==
    /\ retryAttempt = 2
    /\ retryJitterMaxMs = 100
    /\ random = RandomSteps - 1
    /\ delayMs = 395


\* the ids of the queued items and of the items in the browser-operation
\* bridge
QueuedIds == {pendingQueue[i].id : i \in 1..Len(pendingQueue)}
ExecutingIds == {item.id : item \in executing}
\* the executing items whose session has not finalized
LiveExecutingIds == {item.id : item \in {x \in executing : x.socketKey \in socketStates}}

\* C34 as stated: in every reachable supervisor state, activeRequestIds is
\* exactly the set of ids that are in pendingQueue or currently executing in
\* the browser-operation bridge.
C34_ActiveIsQueuedOrExecuting == activeRequestIds = QueuedIds \cup ExecutingIds

\* a socket is finalized whose per-socket pending index holds the id of the
\* command that is executing in the browser-operation bridge
FinalizedWhileExecuting ==
    \E i \in 1..Len(pendingBySocketKey) :
        /\ pendingBySocketKey[i][1] \in socketStates
        /\ pendingBySocketKey[i][1] \notin socketStates'
        /\ pendingBySocketKey[i][2] \in ExecutingIds

\* activeRequestIds is exactly the queued and executing ids, and no two
\* queued or executing commands have the same id
ActiveExact ==
    /\ C34_ActiveIsQueuedOrExecuting
    /\ Cardinality(QueuedIds \cup ExecutingIds) = Len(pendingQueue) + Cardinality(executing)

\* C34, amended: in every reachable supervisor state every id of
\* activeRequestIds is in pendingQueue or executing in the browser-operation
\* bridge; the two sets are equal, and no id is queued or executing twice,
\* from the start until a socket is finalized whose per-socket pending index
\* holds the id of the executing command: that step removes the id from
\* activeRequestIds while the command is still executing.
C34_ActiveTracksQueue ==
    /\ [](activeRequestIds \subseteq QueuedIds \cup ExecutingIds)
    /\ [][(ActiveExact /\ ~FinalizedWhileExecuting) => ActiveExact']_vars

\* the session of an executing command has been finalized and its id is no
\* longer active, while the ids of the queued commands are
C34_Witness ==
    /\ \E item \in executing :
          item.socketKey \notin socketStates /\ item.id \notin activeRequestIds
    /\ pendingQueue # << >>
    /\ activeRequestIds = QueuedIds


\* the run has created all the sockets it may create
SocketsSpent == Sum(socketKey, NumEndpoints) >= MaxReconnectSockets

Held == {pendingQueue[i] : i \in 1..Len(pendingQueue)} \cup executing

\* C36: every command admitted to the queue is eventually removed from it
\* and its id marked completed, provided every invocation of the browser
\* operation returns: a command leaves the queue and the bridge only in a
\* step that marks its id completed, a queued command eventually is neither
\* queued nor executing, and while the queue is not empty the worker is
\* running and waits for an invocation to return.
C36_EveryCommandCompletes ==
    /\ [](pendingQueue # << >> => (queueRunning /\ executing # {}))
    /\ [][\A item \in Held : item \notin Held' => doneAt'[item.id] = now']_vars
    /\ \A n \in 1..MaxAdmits :
          (\E item \in Held : item.seq = n) ~> ~(\E item \in Held : item.seq = n)

\* the third admitted command has been dropped from the queue with a
\* queue-wait timeout after the first one returned, the second has left
\* with its socket
C36_Witness ==
    /\ Held = {}
    /\ \E j \in 1..Len(out) : out[j].reason = "queue_wait_timeout"
    /\ \A id \in Ids : admitCount[id] = 1 /\ doneAt[id] >= 0
    /\ \E id \in Ids : execCount[id] = 0 /\ doneAt[id] = 0
    /\ \E e \in Endpoints : wsState[e] = "CLOSED"


\* C37: a client that answers every ping with a pong before the next
\* heartbeat tick is never closed for pong_timeout, provided
\* heartbeatIntervalMs < pongTimeoutMs: no tick closes a client for
\* pong_timeout unless an earlier ping was still unanswered at a tick, each
\* pong received for a client sets lastPongAt to the time it is received, and
\* the supervisor sends one pong for every ping it handles.
C37_NoPongTimeoutWhenAnswering ==
    /\ []((heartbeatIntervalMs < pongTimeoutMs /\ ~missedPing) => ~pongTimeoutClosed)
    /\ [][(pongsInFlight' < pongsInFlight /\ isClient) => lastPongAt' = hbNow]_vars
    /\ [][pingsInFlight' < pingsInFlight => pongsInFlight' = pongsInFlight + 1]_vars

\* the client has answered every ping for more than twice the pong timeout
\* and is still in the table
C37_Witness ==
    /\ heartbeatIntervalMs < pongTimeoutMs
    /\ isClient /\ ~missedPing /\ ~pongTimeoutClosed
    /\ lastPongAt > pongTimeoutMs
    /\ hbNow > 2 * pongTimeoutMs
    /\ pingsInFlight + pongsInFlight = 0


\* the calls whose body has finished
LockFinished == {c \in LockCalls : lockPhase[c] \in {"returned", "threw"}}

\* C38: in the background worker the bodies of openUrl and captureScreenshot
\* never overlap: at most one body is running, a body has started only when
\* every call made before it has finished, the bodies start in call order,
\* a call that has finished has released the lock whether its body returned
\* or threw, and a waiting call whose predecessors have all finished can
\* start.
C38_BodiesNeverOverlap ==
    /\ Cardinality({c \in LockCalls : lockPhase[c] = "running"}) <= 1
    /\ \A c \in LockCalls :
          lockPhase[c] \in {"running", "returned", "threw"}
          => \A b \in 1..(c - 1) : b \in LockFinished
    /\ startOrder = [i \in 1..Len(startOrder) |-> i]
    /\ \A c \in LockFinished : released[c]
    /\ \A c \in LockCalls :
          (lockPhase[c] = "waiting" /\ \A b \in 1..(c - 1) : b \in LockFinished)
          => prevSettled(c)

\* a screenshot runs after an openUrl called before it threw, while two more
\* calls wait
C38_Witness ==
    /\ lockCmd[1] = "openUrl" /\ lockPhase[1] = "threw"
    /\ lockCmd[2] = "screenshot" /\ lockPhase[2] = "running"
    /\ lockPhase[3] = "waiting" /\ lockPhase[4] = "waiting"
    /\ startOrder = <<1, 2>>


RejectedAtAdmission(id, reason) ==
    /\ Len(out') = 1
    /\ out'[1].id = id
    /\ out'[1].reason = reason
    /\ admitCount' = admitCount
    /\ ticks' = ticks

RejectedForAny(id) ==
    \/ RejectedAtAdmission(id, "duplicate_request_id")
    \/ RejectedAtAdmission(id, "queue_overflow")

\* an id rejected for overflow is neither active nor completed, and an id
\* that is neither active nor completed is admitted when it is sent on an
\* open socket while the queue has room
OverflowIdAdmittedLater ==
    /\ [][\A id \in Ids :
             RejectedAtAdmission(id, "queue_overflow")
             => /\ id \notin activeRequestIds'
                /\ \A j \in 1..Len(recentlyCompletedIds') :
                      recentlyCompletedIds'[j].id # id]_vars
    /\ [](\A e \in Endpoints, id \in Ids :
             (/\ wsState[e] = "OPEN"
              /\ ~HeldAsDuplicate(id)
              /\ Len(pendingQueue) < MAX_GLOBAL_QUEUE_SIZE)
             => enqueueCommand(SState, e, id).admitCount[id] = admitCount[id] + 1)

\* C40 as stated: a cmd rejected at admission (duplicate_request_id or
\* queue_overflow) leaves pendingQueue, activeRequestIds, the per-socket
\* pending index and the unexpired entries of recentlyCompletedIds
\* unchanged; an id rejected for overflow is neither active nor completed
\* and is admitted when re-sent once the queue has room.
C40_RejectionKeepsUnexpired ==
    /\ [][\A id \in Ids :
             RejectedForAny(id)
             => /\ pendingQueue' = pendingQueue
                /\ activeRequestIds' = activeRequestIds
                /\ pendingBySocketKey' = pendingBySocketKey
                /\ UnexpiredCompleted' = UnexpiredCompleted]_vars
    /\ OverflowIdAdmittedLater

\* C40, amended: a cmd rejected at admission leaves pendingQueue,
\* activeRequestIds and the per-socket pending index unchanged, and leaves
\* recentlyCompletedIds as pruneCompletedRequestIds makes it: without the
\* expired entries and cut to its COMPLETED_ID_MAX newest entries, so the
\* unexpired entries are unchanged unless there are more than
\* COMPLETED_ID_MAX of them; an id rejected for overflow is neither active
\* nor completed and is admitted when re-sent once the queue has room.
C40_RejectionOnlyPrunes ==
    /\ [][\A id \in Ids :
             RejectedForAny(id)
             => /\ pendingQueue' = pendingQueue
                /\ activeRequestIds' = activeRequestIds
                /\ pendingBySocketKey' = pendingBySocketKey
                /\ recentlyCompletedIds' =
                      pruneCompletedRequestIds(SState, now).recentlyCompletedIds
                /\ Len(UnexpiredCompleted) <= COMPLETED_ID_MAX
                      => UnexpiredCompleted' = UnexpiredCompleted]_vars
    /\ OverflowIdAdmittedLater

\* a cmd has just been rejected for overflow: the queue is full and the id
\* is neither active nor completed
C40_Witness ==
    /\ Len(pendingQueue) = MAX_GLOBAL_QUEUE_SIZE
    /\ Len(out) = 1
    /\ out[1].reason = "queue_overflow"
    /\ out[1].id \notin activeRequestIds
    /\ ~completedHas(SState, out[1].id)

====
